---- MODULE Spec2Model ----
(***************************************************************************)
(* Task orchestration of PIC2TXT: the task store (DatabaseManager), the    *)
(* orchestrator (TaskService) and the note aggregator (XHSNoteService).    *)
(*                                                                         *)
(* Every caller is a thread with a program counter pc[w] and a frame       *)
(* fr[w] of the locals of the method it runs.  Every store method runs     *)
(* through the handle self.conn of the one DatabaseManager.  Where threads *)
(* share it, the reads and writes of self.conn are separate steps          *)
(* (db[w].ph) around the SQL statement with its commit; where one thread   *)
(* calls at a time, a store method is one step.                            *)
(***************************************************************************)
EXTENDS Integers, Sequences, FiniteSets, TLC

\* ---------------------------------------------------------------- bounds
MaxTasks == 1          \* rows the tasks table may hold
MaxResults == 2        \* rows of results at which no new call is made
NoteImages == 3        \* images of the note that process_note is given

\* ------------------------------------------------------ program constants
MistralOCRService_max_retries == 3   \* MistralOCRService.max_retries
min_task_interval == 10   \* TaskService.min_task_interval, 1.0 s in tenths
max_retries == 2       \* TaskService.max_retries
NumThreads == 2        \* threads of the model: the caller and the pool
MaxClock == 14         \* time, in tenths of a second, after which no call is made
MaxRows == 3           \* rows of the CSV file that process_csv_file is given

None == "None"
NoConn == 0            \* self.conn is None
NoError == {}          \* error_message is NULL
NoOutput == [text |-> None, path |-> None]
\* What a call returned.
Raised == "raised"     \* the call left by an exception
True == "True"
False == "False"

TASK_STATUS_PENDING == "pending"
TASK_STATUS_PROCESSING == "processing"
TASK_STATUS_COMPLETED == "completed"
TASK_STATUS_FAILED == "failed"
TASK_TYPE_IMAGE == "image"
TASK_TYPE_VIDEO == "video"

Threads == 1..NumThreads
TaskIds == 1..MaxTasks

\* URLs a task is created with: a plain one and one of the platform's CDN.
PlainUrl == "http://x/a.jpg"
XhsUrl == "https://sns.xhscdn.com/v1"
Urls == {PlainUrl, XhsUrl}
\* 'xiaohongshu.com' in url or 'xhscdn.com' in url, of the URLs of tasks
IsXhsUrl(u) == u = XhsUrl

LocalPath == "/in/a.jpg"          \* a file path given at creation
DownloadedPath == "/dl/a.jpg"     \* what download_file returns

\* An engine's error text is modelled by the set of the known phrases it
\* contains; RateLimitPhrase stands for the phrase of task_service.py:129.
RateLimitPhrase == "rate_limit_phrase"
MaxRetriesPhrase == "Max retries exceeded"
SSLErrorPhrase == "SSLError"
EngineErrors == { {RateLimitPhrase}, {MaxRetriesPhrase, SSLErrorPhrase},
                  {"file not found"} }
\* task_service.py:129
IsRetryableError_Always(e) == TRUE

IsRetryableError(e) ==
    RateLimitPhrase \in e \/ MaxRetriesPhrase \in e \/ SSLErrorPhrase \in e

MSG_DOWNLOAD_FAILED == {"download failed"}             \* :110
MSG_EXCEPTION == {"str(e)"}                            \* :166

\* What one engine call does: it returns success with text and artifact,
\* returns a failure with an error text, or raises.
EngineReplies ==
    {[kind |-> "success", out |-> o, error |-> NoError] :
        o \in { [text |-> "T1", path |-> "/res/1.txt"],
                [text |-> "T2", path |-> "/res/2.txt"] }}
    \cup {[kind |-> "error", out |-> NoOutput, error |-> e] :
             e \in EngineErrors}
    \cup {[kind |-> "raise", out |-> NoOutput, error |-> NoError]}

\* An engine that succeeds on every call, with one output.
SuccessStub == {r \in EngineReplies : r.kind = "success" /\ r.out.text = "T1"}

\* The failure signature of a reply, as the caller's ghost record of it.
Signature(r) ==
    CASE r.kind = "success" -> "success"
      [] r.kind = "raise" -> "raise"
      [] OTHER -> IF r.error \cap {RateLimitPhrase, MaxRetriesPhrase,
                                    SSLErrorPhrase} # {}
                  THEN "transient" ELSE "terminal"

VARIABLES
    tasks,        \* tasks table: id -> row
    nextTaskId,   \* AUTOINCREMENT of tasks
    results,      \* results table: sequence of rows in rowid order
    conn,         \* DatabaseManager.conn: None or the thread that opened it
    pc,           \* per thread: the statement it is at
    db,           \* per thread: its position inside a store method
    fr,           \* per thread: the locals of the running call
    relations     \* note_task_relations table: note_url -> row

vars == <<tasks, nextTaskId, results, conn, pc, db, fr, relations>>

\* ------------------------------------------------------------ the frames
NoFrame == [fn |-> None, task_id |-> 0, url |-> None, file_path |-> None,
            kind |-> None, retry_count |-> 0, error_msg |-> NoError,
            out |-> NoOutput, ret |-> None, status0 |-> None,
            engine |-> {}, calls |-> 0, downloads |-> 0, seen |-> {},
            faults |-> 0, rows0 |-> 0, note |-> << >>, val |-> None,
            service_type |-> [given |-> FALSE, text |-> << >>],
            named |-> << >>,
            csv |-> [df |-> None, index |-> 0, processed_rows |-> 0,
                     failed_rows |-> 0, all_task_ids |-> << >>,
                     output |-> FALSE],
            api |-> [retry_count |-> 0, requests |-> 0, response |-> None,
                     only429 |-> TRUE],
            rate |-> [now |-> 0, last_task_time |-> 0, dispatched |-> -1,
                      gap |-> -1]]

\* shared: other threads call the store while this thread does, so the
\* steps of connect and close are taken one by one; without them a store
\* method is one step.
NoDb == [shared |-> FALSE, ph |-> "none", hnd |-> NoConn, exc |-> FALSE,
         nxt |-> None, rv |-> None]

\* The except clause that catches what a statement of the call raises.

\* First phase of the store method at statement p.
FirstPhase(shared, p) ==
    \* the statements that are a store method call
    IF p \notin {"ct_insert", "pt_get", "pt_processing", "pt_dl_failed",
                 "pt_set_path", "pt_exhausted", "pt_terminal", "cr_insert",
                 "cr_status", "cr_close", "set_completed", "pt_exc_failed",
                 "pv_get", "pv_processing", "pv_dl_failed", "pv_set_path",
                 "pv_failed", "pv_no_url", "pv_exc_failed",
                 "rt_get", "rt_reset", "us_update", "dt_delete"}
    THEN "none"
    ELSE IF ~shared THEN "call"
    ELSE IF p = "cr_close" THEN "k_check" ELSE "c_check"

\* Where create_result returns to: line :153 of process_task, or the caller
\* of the store method.
AfterCreateResult(f) ==
    IF f.fn = "create_result" THEN "done" ELSE "set_completed"

\* create_result's finally runs self.close() and then its caller goes on.
StartDb(w, p) ==
    [NoDb EXCEPT !.shared = db[w].shared,
                 !.ph = FirstPhase(db[w].shared, p),
                 !.nxt = IF p = "cr_close" THEN AfterCreateResult(fr[w])
                         ELSE None]

\* ------------------------------------------------------------ the store
\* UPDATE tasks SET status = ? WHERE id = ?, the message left as it was
UpdateTaskStatus_KeepMessage(T, id, status, msg) ==
    IF id \in DOMAIN T
    THEN [T EXCEPT ![id].status = status,
                   ![id].error_message = IF msg = NoError THEN @ ELSE msg]
    ELSE T

\* UPDATE tasks SET status = ?, error_message = ? WHERE id = ?
UpdateTaskStatus(T, id, status, msg) ==
    IF id \in DOMAIN T
    THEN [T EXCEPT ![id].status = status, ![id].error_message = msg]
    ELSE T

\* UPDATE tasks SET file_path = ? WHERE id = ?
UpdateTaskFilePath(T, id, path) ==
    IF id \in DOMAIN T THEN [T EXCEPT ![id].file_path = path] ELSE T

\* INSERT INTO tasks (url, file_path, status, ocr_engine)
InsertTask(T, id, url, path, kind) ==
    [t \in DOMAIN T \cup {id} |->
        IF t = id
        THEN [url |-> url, file_path |-> path, status |-> TASK_STATUS_PENDING,
              error_message |-> NoError, task_type |-> kind]
        ELSE T[t]]

NoResult == [task_id |-> 0, text_content |-> None, result_path |-> None]

\* INSERT INTO results (task_id, text_content, result_path)
InsertResult(R, id, text, path) ==
    Append(R, [task_id |-> id, text_content |-> text, result_path |-> path])

\* SELECT * FROM results WHERE task_id = ?
RECURSIVE SelectResults(_, _)
SelectResults(R, id) ==
    IF R = <<>> THEN <<>>
    ELSE IF Head(R).task_id = id
         THEN <<Head(R)>> \o SelectResults(Tail(R), id)
         ELSE SelectResults(Tail(R), id)

get_results_by_task(id) == SelectResults(results, id)

\* TaskService.get_task_result: results[0] if results else None
get_task_result(id) ==
    IF get_results_by_task(id) # <<>> THEN get_results_by_task(id)[1]
    ELSE NoResult

\* ------------------------------------------- leaving a store method
\* An exception leaves the store method at statement pc[w]: inside a try
\* block it reaches the except clause of the call, elsewhere it leaves the
\* call.  update_task_status called by create_result unwinds through
\* create_result's finally first.
Throw(w) ==
    IF pc[w] = "cr_status"
    THEN /\ pc' = [pc EXCEPT ![w] = "cr_close"]
         /\ db' = [db EXCEPT ![w] = [StartDb(w, "cr_close")
                                        EXCEPT !.exc = TRUE]]
         /\ fr' = [fr EXCEPT ![w].faults = @ + 1]
    \* store calls inside the try block of process_task
    \* (task_service.py:103-156) and of process_video_task (:269-354)
    ELSE IF pc[w] \in {"pt_dl_failed", "pt_set_path", "pt_exhausted",
                       "pt_terminal", "cr_insert", "cr_status", "cr_close",
                       "set_completed", "pv_get", "pv_processing",
                       "pv_dl_failed", "pv_set_path", "pv_failed",
                       "pv_no_url"}
    THEN LET except == IF fr[w].fn = "process_video_task"
                       THEN "pv_except" ELSE "pt_except"
         IN
         /\ pc' = [pc EXCEPT ![w] = except]
         /\ db' = [db EXCEPT ![w] = StartDb(w, except)]
         /\ fr' = [fr EXCEPT ![w].faults = @ + 1]
    ELSE /\ pc' = [pc EXCEPT ![w] = "done"]
         /\ db' = [db EXCEPT ![w] = StartDb(w, "done")]
         /\ fr' = [fr EXCEPT ![w].ret = Raised, ![w].faults = @ + 1]

\* The store method returns normally: control goes to db[w].nxt.
Return(w) ==
    /\ pc' = [pc EXCEPT ![w] = db[w].nxt]
    /\ db' = [db EXCEPT ![w] = StartDb(w, db[w].nxt)]
    /\ fr' = IF db[w].nxt = "done" THEN [fr EXCEPT ![w].ret = db[w].rv] ELSE fr

\* ------------------------------------ DatabaseManager.connect and close
\* connect: `if self.conn:` (and the same test at the head of close).
ConnCheck(w) ==
    /\ db[w].ph = "c_check"
    /\ db' = [db EXCEPT ![w].ph = IF conn = NoConn THEN "c_open" ELSE "c_close"]
    /\ UNCHANGED <<tasks, nextTaskId, results, conn, pc, fr>>

\* close, called by connect: self.conn.close(); finally self.conn = NoConn.
\* A handle of another thread refuses (sqlite3.ProgrammingError, caught);
\* a handle that became None raises AttributeError, which is not caught.
ConnClose(w) ==
    /\ db[w].ph = "c_close"
    /\ conn' = NoConn
    /\ IF conn = NoConn
       THEN Throw(w)
       ELSE /\ db' = [db EXCEPT ![w].ph = "c_open"]
            /\ UNCHANGED <<pc, fr>>
    /\ UNCHANGED <<tasks, nextTaskId, results>>

\* connect: self.conn = sqlite3.connect(...)
ConnOpen(w) ==
    /\ db[w].ph = "c_open"
    /\ conn' = w
    /\ db' = [db EXCEPT ![w].ph = "c_pragma"]
    /\ UNCHANGED <<tasks, nextTaskId, results, pc, fr>>

\* connect: self.conn.execute("PRAGMA ...") ... self.cursor = self.conn.cursor()
ConnPragma(w) ==
    /\ db[w].ph = "c_pragma"
    /\ IF conn = w
       THEN /\ db' = [db EXCEPT ![w].ph = "c_ret"]
            /\ UNCHANGED <<pc, fr>>
       ELSE Throw(w)
    /\ UNCHANGED <<tasks, nextTaskId, results, conn>>

\* connect: return self.conn
ConnReturn(w) ==
    /\ db[w].ph = "c_ret"
    /\ db' = [db EXCEPT ![w].ph = "exec", ![w].hnd = conn]
    /\ UNCHANGED <<tasks, nextTaskId, results, conn, pc, fr>>

\* finally: self.close(), its test `if self.conn:`
CloseCheck(w) ==
    /\ db[w].ph = "k_check"
    /\ IF conn = NoConn
       THEN IF db[w].exc THEN Throw(w) ELSE Return(w)
       ELSE /\ db' = [db EXCEPT ![w].ph = "k_close"]
            /\ UNCHANGED <<pc, fr>>
    /\ UNCHANGED <<tasks, nextTaskId, results, conn>>

\* finally: self.close(), self.conn.close() and self.conn = NoConn
CloseDo(w) ==
    /\ db[w].ph = "k_close"
    /\ conn' = NoConn
    /\ IF conn = NoConn \/ db[w].exc THEN Throw(w) ELSE Return(w)
    /\ UNCHANGED <<tasks, nextTaskId, results>>

\* A statement on the handle connect returned: it works on the thread's
\* own handle only.
AtExec(w, p) == pc[w] = p /\ db[w].ph \in {"exec", "call"}
OwnHandle(w) == db[w].ph = "call" \/ db[w].hnd = w
\* conn.cursor() raised: the method's except and finally clauses run.
ExecFails(w) ==
    /\ db' = [db EXCEPT ![w].ph = "k_check", ![w].exc = TRUE]
    /\ UNCHANGED <<pc, fr>>
\* The statement worked and leaves f as the caller's frame: the method's
\* finally clause runs, then control goes to next with the value returned.
ExecDone(w, next, value, f) ==
    IF db[w].ph = "call"
    THEN LET n == IF next = "cr_close" THEN AfterCreateResult(f) ELSE next
         IN /\ pc' = [pc EXCEPT ![w] = n]
            /\ db' = [db EXCEPT ![w] = StartDb(w, n)]
            /\ fr' = [fr EXCEPT ![w] = IF n = "done"
                                       THEN [f EXCEPT !.ret = value] ELSE f]
    ELSE /\ pc' = pc
         /\ db' = [db EXCEPT ![w].ph = "k_check", ![w].nxt = next,
                              ![w].rv = value]
         /\ fr' = [fr EXCEPT ![w] = f]

\* ------------------------------------------------ TaskService.create_task
Idle(w) == pc[w] \in {"idle", "done"}

CallCreateTask(w, url, path) ==
    /\ Idle(w)
    /\ nextTaskId <= MaxTasks
    /\ pc' = [pc EXCEPT ![w] = "ct_insert"]
    /\ db' = [db EXCEPT ![w] = StartDb(w, "ct_insert")]
    /\ fr' = [fr EXCEPT ![w] = [NoFrame EXCEPT !.fn = "create_task",
                  !.url = url, !.file_path = path, !.kind = TASK_TYPE_IMAGE]]
    /\ UNCHANGED <<tasks, nextTaskId, results, conn>>

\* DatabaseManager.create_task
CT_Insert(w) ==
    /\ AtExec(w, "ct_insert")
    /\ IF OwnHandle(w)
       THEN /\ tasks' = InsertTask(tasks, nextTaskId, fr[w].url,
                                   fr[w].file_path, fr[w].kind)
            /\ nextTaskId' = nextTaskId + 1
            /\ ExecDone(w, "done", "task_id",
                        [fr[w] EXCEPT !.task_id = nextTaskId])
       ELSE /\ ExecFails(w)
            /\ UNCHANGED <<tasks, nextTaskId>>
    /\ UNCHANGED <<results, conn>>

\* ----------------------------------------------- TaskService.process_task
CallProcessTask(w, id) ==
    /\ Idle(w)
    /\ Len(results) < MaxResults
    /\ pc' = [pc EXCEPT ![w] = "pt_get"]
    /\ db' = [db EXCEPT ![w] = StartDb(w, "pt_get")]
    /\ fr' = [fr EXCEPT ![w] = [NoFrame EXCEPT !.fn = "process_task",
                  !.task_id = id, !.engine = EngineReplies]]
    /\ UNCHANGED <<tasks, nextTaskId, results, conn>>

\* :83-90 task = get_task(task_id); if not task: return False
PT_GetTask(w) ==
    /\ AtExec(w, "pt_get")
    /\ IF OwnHandle(w)
       THEN IF fr[w].task_id \in DOMAIN tasks
            THEN ExecDone(w, "pt_processing", None,
                     [fr[w] EXCEPT !.url = tasks[fr[w].task_id].url,
                                   !.file_path = tasks[fr[w].task_id].file_path,
                                   !.status0 = tasks[fr[w].task_id].status])
            ELSE ExecDone(w, "done", False, fr[w])
       ELSE ExecFails(w)
    /\ UNCHANGED <<tasks, nextTaskId, results, conn>>

\* :93 update_task_status(task_id, TASK_STATUS_PROCESSING)
PT_SetProcessing(w) ==
    /\ AtExec(w, "pt_processing")
    /\ IF OwnHandle(w)
       THEN /\ tasks' = UpdateTaskStatus(tasks, fr[w].task_id,
                                         TASK_STATUS_PROCESSING, NoError)
            /\ ExecDone(w, "pt_loop", None, fr[w])
       ELSE /\ ExecFails(w)
            /\ UNCHANGED tasks
    /\ UNCHANGED <<nextTaskId, results, conn>>

\* :102-109 the head of an attempt: download when there is a URL and no path
AfterDownload_ToEngine(got) ==
    IF got = None THEN "pt_engine" ELSE "pt_set_path"

\* :110-115 if not file_path: fail and return; else store the path
AfterDownload(got) ==
    IF got = None THEN "pt_dl_failed" ELSE "pt_set_path"

PT_Download(w) ==
    /\ pc[w] = "pt_loop"
    /\ IF fr[w].url # None /\ fr[w].file_path = None
       THEN \E got \in {None, DownloadedPath} :
              LET next == AfterDownload(got)
              IN /\ fr' = [fr EXCEPT ![w].file_path = got,
                                     ![w].downloads = @ + 1]
                 /\ pc' = [pc EXCEPT ![w] = next]
                 /\ db' = [db EXCEPT ![w] = StartDb(w, next)]
       ELSE /\ pc' = [pc EXCEPT ![w] = "pt_engine"]
            /\ UNCHANGED <<db, fr>>
    /\ UNCHANGED <<tasks, nextTaskId, results, conn>>

\* :110-113 update_task_status(FAILED, "download failed"); return False
PT_DownloadFailed(w) ==
    /\ AtExec(w, "pt_dl_failed")
    /\ IF OwnHandle(w)
       THEN /\ tasks' = UpdateTaskStatus(tasks, fr[w].task_id,
                                 TASK_STATUS_FAILED, MSG_DOWNLOAD_FAILED)
            /\ ExecDone(w, "done", False, fr[w])
       ELSE /\ ExecFails(w)
            /\ UNCHANGED tasks
    /\ UNCHANGED <<nextTaskId, results, conn>>

\* :115 update_task_file_path(task_id, file_path)
PT_SetFilePath(w) ==
    /\ AtExec(w, "pt_set_path")
    /\ IF OwnHandle(w)
       THEN /\ tasks' = UpdateTaskFilePath(tasks, fr[w].task_id,
                                           fr[w].file_path)
            /\ ExecDone(w, "pt_engine", None, fr[w])
       ELSE /\ ExecFails(w)
            /\ UNCHANGED tasks
    /\ UNCHANGED <<nextTaskId, results, conn>>

\* :118-144 the engine call and the classification of its failure
AfterEngineError_CeilingOffByOne(f, e) ==
    IF IsRetryableError(e)
    THEN IF f.retry_count + 1 >= max_retries THEN "pt_exhausted" ELSE "pt_loop"
    ELSE "pt_terminal"

AfterEngineError(f, e) ==
    IF IsRetryableError(e)
    THEN IF f.retry_count + 1 > max_retries THEN "pt_exhausted" ELSE "pt_loop"
    ELSE "pt_terminal"

\* process_image(None): the engine reports that it is not installed, or
\* os.path.exists(None) raises (paddle_ocr.py:70-76, mistral_ocr.py:113-119).
RepliesFor(f) ==
    IF f.file_path = None
    THEN {r \in f.engine : r.kind # "success" /\ ~IsRetryableError(r.error)}
    ELSE f.engine

\* :121-156 what process_task does with the reply r of process_image
EngineReply(w, r) ==
    LET next == CASE r.kind = "success" -> "cr_insert"
                  [] r.kind = "error" -> AfterEngineError(fr[w], r.error)
                  [] OTHER -> "pt_except"
    IN /\ pc' = [pc EXCEPT ![w] = next]
       /\ db' = [db EXCEPT ![w] = StartDb(w, next)]
       /\ fr' = [fr EXCEPT
            ![w].calls = @ + 1,
            ![w].seen = @ \cup {Signature(r)},
            ![w].out = IF r.kind = "success" THEN r.out ELSE @,
            ![w].error_msg = IF r.kind = "error" THEN r.error ELSE @,
            ![w].retry_count =
                IF r.kind = "error" /\ IsRetryableError(r.error)
                THEN @ + 1 ELSE @]

PT_Engine(w) ==
    /\ pc[w] = "pt_engine"
    /\ \E r \in RepliesFor(fr[w]) : EngineReply(w, r)
    /\ UNCHANGED <<tasks, nextTaskId, results, conn>>

\* :131-134 the ceiling is reached: update_task_status(FAILED, error_msg)
PT_RetryExhausted(w) ==
    /\ AtExec(w, "pt_exhausted")
    /\ IF OwnHandle(w)
       THEN /\ tasks' = UpdateTaskStatus(tasks, fr[w].task_id,
                                 TASK_STATUS_FAILED, fr[w].error_msg)
            /\ ExecDone(w, "done", False, fr[w])
       ELSE /\ ExecFails(w)
            /\ UNCHANGED tasks
    /\ UNCHANGED <<nextTaskId, results, conn>>

\* :141-144 any other error: update_task_status(FAILED, error_msg)
PT_TerminalFailure(w) ==
    /\ AtExec(w, "pt_terminal")
    /\ IF OwnHandle(w)
       THEN /\ tasks' = UpdateTaskStatus(tasks, fr[w].task_id,
                                 TASK_STATUS_FAILED, fr[w].error_msg)
            /\ ExecDone(w, "done", False, fr[w])
       ELSE /\ ExecFails(w)
            /\ UNCHANGED tasks
    /\ UNCHANGED <<nextTaskId, results, conn>>

\* :150 create_result, db_manager.py:272-283 INSERT INTO results, commit
CreateResultInsert(w) ==
    /\ AtExec(w, "cr_insert")
    /\ IF OwnHandle(w)
       THEN /\ results' = InsertResult(results, fr[w].task_id,
                                       fr[w].out.text, fr[w].out.path)
            /\ pc' = [pc EXCEPT ![w] = "cr_status"]
            /\ db' = [db EXCEPT ![w] = StartDb(w, "cr_status")]
            /\ fr' = fr
       ELSE /\ ExecFails(w)
            /\ UNCHANGED results
    /\ UNCHANGED <<tasks, nextTaskId, conn>>

\* db_manager.py:286 self.update_task_status(task_id, TASK_STATUS_COMPLETED)
CreateResultStatus_NoUpdate(w) ==
    /\ AtExec(w, "cr_status")
    /\ IF OwnHandle(w)
       THEN /\ tasks' = tasks
            /\ ExecDone(w, "cr_close", "result_id", fr[w])
       ELSE /\ ExecFails(w)
            /\ UNCHANGED tasks
    /\ UNCHANGED <<nextTaskId, results, conn>>

CreateResultStatus(w) ==
    /\ AtExec(w, "cr_status")
    /\ IF OwnHandle(w)
       THEN /\ tasks' = UpdateTaskStatus(tasks, fr[w].task_id,
                                         TASK_STATUS_COMPLETED, NoError)
            /\ ExecDone(w, "cr_close", "result_id", fr[w])
       ELSE /\ ExecFails(w)
            /\ UNCHANGED tasks
    /\ UNCHANGED <<nextTaskId, results, conn>>

\* :153 update_task_status(task_id, TASK_STATUS_COMPLETED); return True
SetCompleted(w) ==
    /\ AtExec(w, "set_completed")
    /\ IF OwnHandle(w)
       THEN /\ tasks' = UpdateTaskStatus(tasks, fr[w].task_id,
                                         TASK_STATUS_COMPLETED, NoError)
            /\ ExecDone(w, "done", True, fr[w])
       ELSE /\ ExecFails(w)
            /\ UNCHANGED tasks
    /\ UNCHANGED <<nextTaskId, results, conn>>

\* :158-172 except Exception: count the retry, fail at the ceiling
PT_Except(w) ==
    /\ pc[w] = "pt_except"
    /\ LET next == IF fr[w].retry_count + 1 > max_retries
                   THEN "pt_exc_failed" ELSE "pt_loop"
       IN /\ pc' = [pc EXCEPT ![w] = next]
          /\ db' = [db EXCEPT ![w] = StartDb(w, next)]
          /\ fr' = [fr EXCEPT ![w].retry_count = @ + 1]
    /\ UNCHANGED <<tasks, nextTaskId, results, conn>>

\* :166-167 update_task_status(FAILED, str(e)); return False
PT_ExceptFailed(w) ==
    /\ AtExec(w, "pt_exc_failed")
    /\ IF OwnHandle(w)
       THEN /\ tasks' = UpdateTaskStatus(tasks, fr[w].task_id,
                                 TASK_STATUS_FAILED, MSG_EXCEPTION)
            /\ ExecDone(w, "done", False, fr[w])
       ELSE /\ ExecFails(w)
            /\ UNCHANGED tasks
    /\ UNCHANGED <<nextTaskId, results, conn>>

\* ------------------------------------------ TaskService.create_video_task
\* :251-256 create_task(url, file_path, task_type=TASK_TYPE_VIDEO, ...)
CallCreateVideoTask(w, url, path) ==
    /\ Idle(w)
    /\ nextTaskId <= MaxTasks
    /\ pc' = [pc EXCEPT ![w] = "ct_insert"]
    /\ db' = [db EXCEPT ![w] = StartDb(w, "ct_insert")]
    /\ fr' = [fr EXCEPT ![w] = [NoFrame EXCEPT !.fn = "create_video_task",
                  !.url = url, !.file_path = path, !.kind = TASK_TYPE_VIDEO]]
    /\ UNCHANGED <<tasks, nextTaskId, results, conn>>

\* ----------------------------------------- TaskService.process_video_task
CallProcessVideoTask(w, id) ==
    /\ Idle(w)
    /\ Len(results) < MaxResults
    /\ pc' = [pc EXCEPT ![w] = "pv_get"]
    /\ db' = [db EXCEPT ![w] = StartDb(w, "pv_get")]
    /\ fr' = [fr EXCEPT ![w] = [NoFrame EXCEPT !.fn = "process_video_task",
                  !.task_id = id, !.engine = EngineReplies]]
    /\ UNCHANGED <<tasks, nextTaskId, results, conn>>

\* :271-274, 279-280 task = get_task(task_id); if not task: return False
PV_GetTask(w) ==
    /\ AtExec(w, "pv_get")
    /\ IF OwnHandle(w)
       THEN IF fr[w].task_id \in DOMAIN tasks
            THEN ExecDone(w, "pv_processing", None,
                     [fr[w] EXCEPT !.url = tasks[fr[w].task_id].url,
                                   !.file_path = tasks[fr[w].task_id].file_path,
                                   !.status0 = tasks[fr[w].task_id].status])
            ELSE ExecDone(w, "done", False, fr[w])
       ELSE ExecFails(w)
    /\ UNCHANGED <<tasks, nextTaskId, results, conn>>

\* :277 update_task_status(task_id, TASK_STATUS_PROCESSING)
PV_SetProcessing(w) ==
    /\ AtExec(w, "pv_processing")
    /\ IF OwnHandle(w)
       THEN /\ tasks' = UpdateTaskStatus(tasks, fr[w].task_id,
                                         TASK_STATUS_PROCESSING, NoError)
            /\ ExecDone(w, "pv_branch", None, fr[w])
       ELSE /\ ExecFails(w)
            /\ UNCHANGED tasks
    /\ UNCHANGED <<nextTaskId, results, conn>>

\* :284-354 which resource the engine gets: a platform URL goes to the
\* engine as it is, another URL is downloaded, a task with neither fails.
PV_Branch(w) ==
    /\ pc[w] = "pv_branch"
    /\ IF fr[w].url # None /\ fr[w].file_path = None
       THEN IF IsXhsUrl(fr[w].url)
            THEN /\ pc' = [pc EXCEPT ![w] = "pv_engine"]
                 /\ UNCHANGED <<db, fr>>
            ELSE \E got \in {None, DownloadedPath} :
                   LET next == IF got = None THEN "pv_dl_failed"
                                             ELSE "pv_set_path"
                   IN /\ fr' = [fr EXCEPT ![w].file_path = got,
                                          ![w].downloads = @ + 1]
                      /\ pc' = [pc EXCEPT ![w] = next]
                      /\ db' = [db EXCEPT ![w] = StartDb(w, next)]
       ELSE IF fr[w].file_path # None
            THEN /\ pc' = [pc EXCEPT ![w] = "pv_engine"]
                 /\ UNCHANGED <<db, fr>>
            ELSE /\ pc' = [pc EXCEPT ![w] = "pv_no_url"]
                 /\ db' = [db EXCEPT ![w] = StartDb(w, "pv_no_url")]
                 /\ fr' = fr
    /\ UNCHANGED <<tasks, nextTaskId, results, conn>>

\* :317-320 update_task_status(FAILED, "video download failed"); return False
PV_DownloadFailed(w) ==
    /\ AtExec(w, "pv_dl_failed")
    /\ IF OwnHandle(w)
       THEN /\ tasks' = UpdateTaskStatus(tasks, fr[w].task_id,
                             TASK_STATUS_FAILED, {"video download failed"})
            /\ ExecDone(w, "done", False, fr[w])
       ELSE /\ ExecFails(w)
            /\ UNCHANGED tasks
    /\ UNCHANGED <<nextTaskId, results, conn>>

\* :322 update_task_file_path(task_id, file_path)
PV_SetFilePath(w) ==
    /\ AtExec(w, "pv_set_path")
    /\ IF OwnHandle(w)
       THEN /\ tasks' = UpdateTaskFilePath(tasks, fr[w].task_id,
                                           fr[w].file_path)
            /\ ExecDone(w, "pv_engine", None, fr[w])
       ELSE /\ ExecFails(w)
            /\ UNCHANGED tasks
    /\ UNCHANGED <<nextTaskId, results, conn>>

\* :291-311 and :327-347 video_service.process_video and its result
PV_Engine(w) ==
    /\ pc[w] = "pv_engine"
    /\ \E r \in fr[w].engine :
         LET next == CASE r.kind = "success" -> "cr_insert"
                       [] r.kind = "error" -> "pv_failed"
                       [] OTHER -> "pv_except"
         IN /\ pc' = [pc EXCEPT ![w] = next]
            /\ db' = [db EXCEPT ![w] = StartDb(w, next)]
            /\ fr' = [fr EXCEPT
                 ![w].calls = @ + 1,
                 ![w].seen = @ \cup {Signature(r)},
                 ![w].out = IF r.kind = "success" THEN r.out ELSE @,
                 ![w].error_msg = IF r.kind = "error" THEN r.error ELSE @]
    /\ UNCHANGED <<tasks, nextTaskId, results, conn>>

\* :308-311, :344-347 with the failed write left out: return False
PV_Failed_NoStatus(w) ==
    /\ AtExec(w, "pv_failed")
    /\ IF OwnHandle(w)
       THEN ExecDone(w, "done", False, fr[w])
       ELSE ExecFails(w)
    /\ UNCHANGED <<tasks, nextTaskId, results, conn>>

\* :308-311, :344-347 update_task_status(FAILED, error_msg); return False
PV_Failed(w) ==
    /\ AtExec(w, "pv_failed")
    /\ IF OwnHandle(w)
       THEN /\ tasks' = UpdateTaskStatus(tasks, fr[w].task_id,
                                 TASK_STATUS_FAILED, fr[w].error_msg)
            /\ ExecDone(w, "done", False, fr[w])
       ELSE /\ ExecFails(w)
            /\ UNCHANGED tasks
    /\ UNCHANGED <<nextTaskId, results, conn>>

\* :350-354 neither URL nor file path: update_task_status(FAILED, ...)
PV_NoUrlOrPath(w) ==
    /\ AtExec(w, "pv_no_url")
    /\ IF OwnHandle(w)
       THEN /\ tasks' = UpdateTaskStatus(tasks, fr[w].task_id,
                                 TASK_STATUS_FAILED, {"no url or file path"})
            /\ ExecDone(w, "done", False, fr[w])
       ELSE /\ ExecFails(w)
            /\ UNCHANGED tasks
    /\ UNCHANGED <<nextTaskId, results, conn>>

\* :356-370 except Exception: count the retry, start the loop body again
PV_Except(w) ==
    /\ pc[w] = "pv_except"
    /\ LET next == IF fr[w].retry_count + 1 > max_retries
                   THEN "pv_exc_failed" ELSE "pv_get"
       IN /\ pc' = [pc EXCEPT ![w] = next]
          /\ db' = [db EXCEPT ![w] = StartDb(w, next)]
          /\ fr' = [fr EXCEPT ![w].retry_count = @ + 1]
    /\ UNCHANGED <<tasks, nextTaskId, results, conn>>

\* :364-365 update_task_status(FAILED, str(e)); return False
PV_ExceptFailed(w) ==
    /\ AtExec(w, "pv_exc_failed")
    /\ IF OwnHandle(w)
       THEN /\ tasks' = UpdateTaskStatus(tasks, fr[w].task_id,
                                 TASK_STATUS_FAILED, MSG_EXCEPTION)
            /\ ExecDone(w, "done", False, fr[w])
       ELSE /\ ExecFails(w)
            /\ UNCHANGED tasks
    /\ UNCHANGED <<nextTaskId, results, conn>>

\* --------------------------------- the retry action (ui/task_page.py:117)
CallRetry(w, id) ==
    /\ Idle(w)
    /\ Len(results) < MaxResults
    /\ pc' = [pc EXCEPT ![w] = "rt_get"]
    /\ db' = [db EXCEPT ![w] = StartDb(w, "rt_get")]
    /\ fr' = [fr EXCEPT ![w] = [NoFrame EXCEPT !.fn = "retry",
                  !.task_id = id, !.engine = EngineReplies]]
    /\ UNCHANGED <<tasks, nextTaskId, results, conn>>

\* :118-120 with the test of the status left out
RT_GetTask_AnyStatus(w) ==
    /\ AtExec(w, "rt_get")
    /\ IF OwnHandle(w)
       THEN IF fr[w].task_id \in DOMAIN tasks
            THEN ExecDone(w, "rt_reset", None, fr[w])
            ELSE ExecDone(w, "done", None, fr[w])
       ELSE ExecFails(w)
    /\ UNCHANGED <<tasks, nextTaskId, results, conn>>

\* :118-120, :131-133 only a failed task is retried
RT_GetTask(w) ==
    /\ AtExec(w, "rt_get")
    /\ IF OwnHandle(w)
       THEN IF /\ fr[w].task_id \in DOMAIN tasks
               /\ tasks[fr[w].task_id].status = TASK_STATUS_FAILED
            THEN ExecDone(w, "rt_reset", None, fr[w])
            ELSE ExecDone(w, "done", None, fr[w])
       ELSE ExecFails(w)
    /\ UNCHANGED <<tasks, nextTaskId, results, conn>>

\* :122-125 db.update_task_status(task_id, TASK_STATUS_PENDING), then
\* task_service.process_task(task_id)
RT_Reset(w) ==
    /\ AtExec(w, "rt_reset")
    /\ IF OwnHandle(w)
       THEN /\ tasks' = UpdateTaskStatus(tasks, fr[w].task_id,
                                         TASK_STATUS_PENDING, NoError)
            /\ ExecDone(w, "pt_get", None, fr[w])
       ELSE /\ ExecFails(w)
            /\ UNCHANGED tasks
    /\ UNCHANGED <<nextTaskId, results, conn>>

\* ------------------------------------------------------------------ Spec
Init ==
    /\ tasks = << >>
    /\ nextTaskId = 1
    /\ results = << >>
    /\ conn = NoConn
    /\ pc = [w \in Threads |-> IF w = 1 THEN "idle" ELSE "off"]
    /\ db = [w \in Threads |-> NoDb]
    /\ fr = [w \in Threads |-> NoFrame]
    /\ relations = << >>

ProcessTaskStep(w) ==
    \/ PT_GetTask(w) \/ PT_SetProcessing(w) \/ PT_Download(w)
    \/ PT_DownloadFailed(w) \/ PT_SetFilePath(w) \/ PT_Engine(w)
    \/ PT_RetryExhausted(w) \/ PT_TerminalFailure(w)
    \/ CreateResultInsert(w) \/ CreateResultStatus(w)
    \/ SetCompleted(w) \/ PT_Except(w) \/ PT_ExceptFailed(w)

ProcessVideoTaskStep(w) ==
    \/ PV_GetTask(w) \/ PV_SetProcessing(w) \/ PV_Branch(w)
    \/ PV_DownloadFailed(w) \/ PV_SetFilePath(w) \/ PV_Engine(w)
    \/ PV_Failed(w) \/ PV_NoUrlOrPath(w)
    \/ PV_Except(w) \/ PV_ExceptFailed(w)

\* Image tasks: create_task, process_task and the retry action.
Next ==
    /\ UNCHANGED relations
    /\ \E w \in Threads :
        \/ \E url \in Urls \cup {None}, path \in {None, LocalPath} :
               CallCreateTask(w, url, path)
        \/ CT_Insert(w)
        \/ \E id \in TaskIds : CallProcessTask(w, id) \/ CallRetry(w, id)
        \/ RT_GetTask(w) \/ RT_Reset(w)
        \/ ProcessTaskStep(w)

Spec == Init /\ [][Next]_vars

\* Image and video tasks.
NextVideo ==
    /\ UNCHANGED relations
    /\ \E w \in Threads :
        \/ \E url \in Urls \cup {None}, path \in {None, LocalPath} :
               CallCreateTask(w, url, path) \/ CallCreateVideoTask(w, url, path)
        \/ CT_Insert(w)
        \/ \E id \in TaskIds :
               \/ CallProcessTask(w, id)
               \/ CallProcessVideoTask(w, id)
               \/ CallRetry(w, id)
        \/ RT_GetTask(w) \/ RT_Reset(w)
        \/ ProcessTaskStep(w)
        \/ ProcessVideoTaskStep(w)

SpecVideo == Init /\ [][NextVideo]_vars

\* -------------------------------------------------------------- SpecPar
\* process_tasks_in_parallel (:418-424) has submitted process_task(t) for
\* the pending image tasks 1..NumThreads, one to each thread of the pool;
\* all of them run on the DatabaseManager of the one TaskService.
InitPar ==
    /\ tasks = [t \in Threads |->
                  InsertTask(<< >>, t, None, LocalPath, TASK_TYPE_IMAGE)[t]]
    /\ nextTaskId = NumThreads + 1
    /\ results = << >>
    /\ conn = NoConn
    /\ pc = [w \in Threads |-> "pt_get"]
    /\ db = [w \in Threads |-> [NoDb EXCEPT !.shared = TRUE,
                                          !.ph = "c_check"]]
    /\ fr = [w \in Threads |->
               [NoFrame EXCEPT !.fn = "process_task", !.task_id = w,
                               !.engine = SuccessStub]]
    /\ relations = << >>

\* The handle steps of a thread that shares the DatabaseManager with
\* others, and the statements of process_task that a task with a file path
\* and a succeeding engine reaches.
NextPar ==
    /\ UNCHANGED relations
    /\ \E w \in Threads :
        \/ ConnCheck(w) \/ ConnClose(w) \/ ConnOpen(w) \/ ConnPragma(w)
        \/ ConnReturn(w) \/ CloseCheck(w) \/ CloseDo(w)
        \/ PT_GetTask(w) \/ PT_SetProcessing(w) \/ PT_Download(w)
        \/ PT_Engine(w)
        \/ CreateResultInsert(w) \/ CreateResultStatus(w) \/ SetCompleted(w)
        \/ PT_Except(w) \/ PT_ExceptFailed(w)

SpecPar == InitPar /\ [][NextPar]_vars

\* ------------------------------------------------------- XHSNoteService
\* The note a CSV row names, as the row writes its URL and as
\* _normalize_note_url rewrites it.
\* A URL string is the record of its parts: scheme://host/seg/seg?query,
\* a path segment being the sequence of its characters.  A string without
\* "://" has the scheme "".
ExploreSeg == <<"e", "x", "p", "l", "o", "r", "e">>
MainHost == "www.xiaohongshu.com"
Url(scheme, host, path, query) ==
    [scheme |-> scheme, host |-> host, path |-> path, query |-> query]
EmptyUrl == Url("", "", << >>, "")

\* The notes and the ways a row may write the URL of a note: with either
\* scheme or none, either host, a query or none, and a trailing path.
Decorate(id, scheme, host, query, trailer) ==
    Url(scheme, host, <<ExploreSeg, id>> \o trailer, query)

NoteUrl == Decorate(<<"n", "1">>, "https", MainHost, "", << >>)

\* urlparse(url).path: the segments after the host; a string without a
\* scheme has no netloc and its path begins with the host, without a "/".
ParsedPath(url) ==
    IF url.scheme = ""
    THEN [rooted |-> FALSE, segs |-> << <<url.host>> >> \o url.path]
    ELSE [rooted |-> TRUE, segs |-> url.path]

\* [a-zA-Z0-9]+ at the head of a segment: its longest alphanumeric prefix,
\* over the characters that the URLs of the model are written in.
RECURSIVE AlnumPrefix(_)
AlnumPrefix(seg) ==
    IF seg = << >> \/ Head(seg) \notin {"a", "b", "B", "n", "1", "2"}
    THEN << >>
    ELSE <<Head(seg)>> \o AlnumPrefix(Tail(seg))

\* re.search(r'/explore/([a-zA-Z0-9]+)', path): group 1 of the first match
\* at or after segment i, << >> when there is none.
RECURSIVE NoteIdMatch(_, _)
NoteIdMatch(p, i) ==
    IF i + 1 > Len(p.segs) THEN << >>
    ELSE IF /\ p.segs[i] = ExploreSeg
            /\ (i > 1 \/ p.rooted)
            /\ AlnumPrefix(p.segs[i + 1]) # << >>
         THEN AlnumPrefix(p.segs[i + 1])
         ELSE NoteIdMatch(p, i + 1)

_normalize_note_url_KeepQuery(url) ==
    IF url = EmptyUrl THEN EmptyUrl
    ELSE LET note_id == NoteIdMatch(ParsedPath(url), 1)
         IN IF note_id # << >>
            THEN Url("https", MainHost, <<ExploreSeg, note_id>>, url.query)
            ELSE url

\* _normalize_note_url: a URL with an /explore/<id> path becomes the
\* canonical URL of that id, any other URL is returned as it is.
_normalize_note_url(url) ==
    IF url = EmptyUrl THEN EmptyUrl
    ELSE LET note_id == NoteIdMatch(ParsedPath(url), 1)
         IN IF note_id # << >>
            THEN Url("https", MainHost, <<ExploreSeg, note_id>>, "")
            ELSE url

\* The image_list of the row after extract_image_urls, and what the OCR
\* engine reads in each image.
AllImageUrls == <<"http://x/1.jpg", "http://x/2.jpg", "http://x/3.jpg",
                  "http://x/4.jpg">>
AllImageTexts == <<"text 1", "text 2", "text 3", "text 4">>

\* is_valid_image_url: an image extension or a host of the platform
is_valid_image_url(url) ==
    IsXhsUrl(url) \/ \E i \in DOMAIN AllImageUrls : AllImageUrls[i] = url

\* The engine stub of the image at url: it succeeds with the image's text.
ImageOutput(url) ==
    LET i == CHOOSE i \in DOMAIN AllImageUrls : AllImageUrls[i] = url
    IN [text |-> AllImageTexts[i],
        path |-> <<"/res/i1.txt", "/res/i2.txt", "/res/i3.txt",
                   "/res/i4.txt">>[i]]

\* process_note :110-116 a task for every valid image URL, in list order:
\* the tables after the loop and the ids it collected.
RECURSIVE CreateImageTasks(_, _, _)
CreateImageTasks(T, next, urls) ==
    IF urls = << >> THEN [tasks |-> T, ids |-> << >>]
    ELSE IF is_valid_image_url(Head(urls))
         THEN LET rest == CreateImageTasks(
                  InsertTask(T, next, Head(urls), None, TASK_TYPE_IMAGE),
                  next + 1, Tail(urls))
              IN [tasks |-> rest.tasks, ids |-> <<next>> \o rest.ids]
         ELSE CreateImageTasks(T, next, Tail(urls))

\* DatabaseManager.execute_query on note_task_relations, as the queries of
\* XHSNoteService use it; note_url is UNIQUE.
\* SELECT ... FROM note_task_relations WHERE note_url = ?
SelectRelation(R, note_url) ==
    IF note_url \in DOMAIN R THEN <<R[note_url]>> ELSE << >>

\* _save_note_task_relation: the row of the note gets the two lists, a note
\* without a row gets one.  The lists are stored as JSON arrays, which keep
\* the order and the ids of the lists.
_save_note_task_relation(R, note_url, image_task_ids, video_task_ids) ==
    \* get_note_relation_id(note_url) > 0
    IF SelectRelation(R, note_url) # << >>
    \* UPDATE note_task_relations SET task_ids = ?, video_task_ids = ?
    THEN [R EXCEPT ![note_url].task_ids = image_task_ids,
                   ![note_url].video_task_ids = video_task_ids]
    \* INSERT INTO note_task_relations (note_url, task_ids, video_task_ids,
    \* status) VALUES (?, ?, ?, 'pending')
    ELSE [u \in DOMAIN R \cup {note_url} |->
            IF u = note_url
            THEN [task_ids |-> image_task_ids,
                  video_task_ids |-> video_task_ids,
                  status |-> TASK_STATUS_PENDING]
            ELSE R[u]]

\* get_note_ocr_results :163-170 the results of the tasks of the list, each
\* with the marker of its position in the list; a task without a Result is
\* left out.  The text is the sequence of <<marker index, text_content>>.
RECURSIVE MarkedResults(_, _)
MarkedResults(task_ids, i) ==
    IF i > Len(task_ids) THEN << >>
    ELSE LET result == get_task_result(task_ids[i])
         IN (IF result # NoResult THEN << <<i, result.text_content>> >>
             ELSE << >>) \o MarkedResults(task_ids, i + 1)

\* The tasks of the results table in the order of their rows.
RECURSIVE Present(_, _)
Present(R, ids) ==
    IF R = << >> THEN << >>
    ELSE (IF \E i \in DOMAIN ids : ids[i] = Head(R).task_id
          THEN <<Head(R).task_id>> ELSE << >>) \o Present(Tail(R), ids)

get_note_ocr_results_ByCompletion(note_url) ==
    LET relation == SelectRelation(relations, note_url)
    IN IF relation = << >> THEN << >>
       ELSE MarkedResults(Present(results, relation[1].task_ids), 1)

\* get_note_ocr_results :148-173 a note without a relation has no text
get_note_ocr_results(note_url) ==
    LET relation == SelectRelation(relations, note_url)
    IN IF relation = << >> THEN << >>
       ELSE MarkedResults(relation[1].task_ids, 1)

\* process_note(note_data) with process_video off makes the tasks of the
\* images and the relation of the note; its task ids go to all_task_ids
\* (csv_service.py:113-122), here the task_id of the thread that will run
\* each.  It is called for the row of a file and, when the tasks of that
\* file are done, once more for a row of a second file.
ProcessNote(note_url) ==
    /\ nextTaskId <= NoteImages + 1
    /\ \/ nextTaskId = 1 /\ \A w \in DOMAIN pc : pc[w] = "off"
       \/ \A w \in DOMAIN pc : pc[w] = "done"
    /\ LET made == CreateImageTasks(tasks, nextTaskId,
                                    SubSeq(AllImageUrls, 1, NoteImages))
       IN /\ tasks' = made.tasks
          /\ nextTaskId' = nextTaskId + Len(made.ids)
          /\ relations' = IF made.ids # << >>
                          THEN _save_note_task_relation(relations,
                                 _normalize_note_url(note_url), made.ids, << >>)
                          ELSE relations
          /\ fr' = [w \in DOMAIN fr |->
                     [NoFrame EXCEPT !.task_id = made.ids[w]]]
    /\ pc' = [w \in DOMAIN pc |-> "off"]
    /\ UNCHANGED <<results, conn, db>>

\* csv_service.py:134 and task_service.py:418-424: process_tasks_in_parallel
\* submits process_task for every task of the note to a thread of its own.
\* The model runs the tasks of the first file.
SubmitNoteTasks ==
    /\ nextTaskId = NoteImages + 1
    /\ \A w \in DOMAIN pc : pc[w] = "off"
    /\ pc' = [w \in DOMAIN pc |-> "pt_get"]
    /\ db' = [w \in DOMAIN db |-> StartDb(w, "pt_get")]
    /\ fr' = [w \in DOMAIN fr |->
               [NoFrame EXCEPT !.fn = "process_task",
                               !.task_id = fr[w].task_id,
                               !.engine =
                                 {[kind |-> "success", error |-> NoError,
                                   out |-> ImageOutput(
                                             tasks[fr[w].task_id].url)]}]]
    /\ UNCHANGED <<tasks, nextTaskId, results, conn, relations>>

InitNote ==
    /\ tasks = << >>
    /\ nextTaskId = 1
    /\ results = << >>
    /\ conn = NoConn
    /\ pc = [w \in (1..NoteImages) |-> "off"]
    /\ db = [w \in (1..NoteImages) |-> NoDb]
    /\ fr = [w \in (1..NoteImages) |-> NoFrame]
    /\ relations = << >>

\* process_note, the dispatch, and the statements of process_task that a
\* task with a URL and a succeeding engine reaches; every store call is
\* taken as a whole.
NextNote ==
    \* the note's URL, the same URL with a query, and a URL of no note
    \/ \E note_url \in
            {NoteUrl,
             Decorate(<<"n", "1">>, "https", MainHost, "xsec_token=t", << >>),
             Url("https", "example.com", << <<"p">>, <<"1">> >>, "ref=a")} :
          ProcessNote(note_url)
    \/ SubmitNoteTasks
    \/ /\ UNCHANGED relations
       /\ \E w \in 1..NoteImages :
            \/ PT_GetTask(w) \/ PT_SetProcessing(w) \/ PT_Download(w)
            \/ PT_DownloadFailed(w) \/ PT_SetFilePath(w) \/ PT_Engine(w)
            \/ CreateResultInsert(w) \/ CreateResultStatus(w)
            \/ SetCompleted(w)

SpecNote == InitNote /\ [][NextNote]_vars

\* process_task has returned to thread w (called directly or by the retry
\* action) with a truth value.
ProcessTaskReturned(w) ==
    /\ pc[w] = "done"
    /\ fr[w].fn \in {"process_task", "retry"}
    /\ fr[w].ret \in {True, False}
    /\ fr[w].task_id \in DOMAIN tasks

\* C1: a step changes the status of a completed or failed task only if it
\* is the reset of the retry action.
C1_StatusMonotonic ==
    [][\A t \in DOMAIN tasks :
          (/\ t \in DOMAIN tasks'
           /\ tasks[t].status \in {TASK_STATUS_COMPLETED, TASK_STATUS_FAILED}
           /\ tasks'[t].status # tasks[t].status)
          => \E w \in Threads : pc[w] = "rt_reset" /\ fr[w].task_id = t]_vars

\* C2: when every engine call of a process_task call reported a transient
\* failure, the call made 1 + max_retries engine calls, returned false and
\* left the task failed.
C2_RetryCeiling ==
    \A w \in Threads :
        (ProcessTaskReturned(w) /\ fr[w].seen = {"transient"})
        => /\ fr[w].calls = 1 + max_retries
           /\ fr[w].ret = False
           /\ tasks[fr[w].task_id].status = TASK_STATUS_FAILED

C2_Witness ==
    \E w \in Threads :
        /\ ProcessTaskReturned(w) /\ fr[w].seen = {"transient"}
        /\ fr[w].calls = 1 + max_retries
        /\ tasks[fr[w].task_id].status = TASK_STATUS_FAILED

\* C3: when the engine reported a non-transient error, process_task made
\* exactly one engine call, marked the task failed with the reported error
\* and returned false.
C3_NoRetryOnTerminal ==
    \A w \in Threads :
        (ProcessTaskReturned(w) /\ fr[w].seen = {"terminal"})
        => /\ fr[w].calls = 1
           /\ fr[w].ret = False
           /\ tasks[fr[w].task_id].status = TASK_STATUS_FAILED
           /\ tasks[fr[w].task_id].error_message = fr[w].error_msg

C3_Witness ==
    \E w \in Threads :
        /\ ProcessTaskReturned(w) /\ fr[w].seen = {"terminal"}
        /\ fr[w].calls = 1
        /\ tasks[fr[w].task_id].status = TASK_STATUS_FAILED
        /\ tasks[fr[w].task_id].error_message = {"file not found"}

\* C4: when a retryable engine error persisted past the retry ceiling, the
\* task is failed, its error message is the one of retry exhaustion and
\* process_task returned false.
C4_ExhaustionMessage ==
    \A w \in Threads :
        (/\ ProcessTaskReturned(w)
         /\ fr[w].seen = {"transient"}
         /\ fr[w].retry_count > max_retries)
        => /\ fr[w].ret = False
           /\ tasks[fr[w].task_id].status = TASK_STATUS_FAILED
           \* :175
           /\ tasks[fr[w].task_id].error_message =
                  {"still failing after max retries"}

\* C5: a create_task call with neither url nor file_path fails with
\* InvalidInputError and the tasks table holds no row with neither.
C5_CreateRejectsEmpty ==
    \A w \in Threads :
        (/\ pc[w] = "done" /\ fr[w].fn = "create_task"
         /\ fr[w].url = None /\ fr[w].file_path = None)
        => /\ fr[w].ret = "InvalidInputError"
           /\ \A t \in DOMAIN tasks :
                 tasks[t].url # None \/ tasks[t].file_path # None

\* C6: process_task on a pending task with a URL, whose download and
\* engine call succeeded with text T and artifact P, returned true, the
\* task is completed with the downloaded path and get_task_result gives
\* a Result with T and P.
C6_SuccessPath ==
    \A w \in Threads :
        (/\ ProcessTaskReturned(w)
         /\ fr[w].status0 = TASK_STATUS_PENDING
         /\ fr[w].url # None
         /\ fr[w].downloads = 1 /\ fr[w].file_path = DownloadedPath
         /\ fr[w].seen = {"success"})
        => /\ fr[w].ret = True
           /\ tasks[fr[w].task_id].status = TASK_STATUS_COMPLETED
           /\ tasks[fr[w].task_id].file_path = DownloadedPath
           /\ get_task_result(fr[w].task_id).text_content = fr[w].out.text
           /\ get_task_result(fr[w].task_id).result_path = fr[w].out.path

\* C7: every task has at most one Result row and every completed task has
\* a Result.
C7_OneResultPerTask ==
    \A t \in DOMAIN tasks :
        /\ Len(get_results_by_task(t)) <= 1
        /\ tasks[t].status = TASK_STATUS_COMPLETED
               => Len(get_results_by_task(t)) >= 1

\* C9: whenever a new Result row of a task becomes visible, the task's
\* status is completed in that same state.
C9_ResultAndStatusAtomic ==
    [][\A t \in DOMAIN tasks :
          Len(SelectResults(results', t)) > Len(SelectResults(results, t))
          => tasks'[t].status = TASK_STATUS_COMPLETED]_vars

\* What a run of process_task(t) without concurrent callers leaves for a
\* pending task t without a Result: true, completed and the one Result of
\* the engine's output when an engine call succeeded, false and failed
\* without a Result otherwise.
\* C8: of the workers of a parallel dispatch, each on a task of its own, no
\* store call fails, and when a worker is done its task is in the state a
\* sequential run leaves.
C8_ParallelWritesSafe ==
    \A w \in Threads :
        LET t == fr[w].task_id
            ok == "success" \in fr[w].seen
        IN /\ fr[w].faults = 0
           /\ pc[w] = "done"
              => /\ fr[w].ret = IF ok THEN True ELSE False
                 /\ tasks[t].status = IF ok THEN TASK_STATUS_COMPLETED
                                            ELSE TASK_STATUS_FAILED
                 /\ get_results_by_task(t) =
                       IF ok THEN InsertResult(<< >>, t, fr[w].out.text,
                                               fr[w].out.path)
                             ELSE << >>

\* The note of NoteUrl has the tasks of its images and all are completed.
NoteCompleted ==
    /\ NoteUrl \in DOMAIN relations
    /\ Len(relations[NoteUrl].task_ids) = NoteImages
    /\ \A i \in 1..NoteImages :
          tasks[relations[NoteUrl].task_ids[i]].status = TASK_STATUS_COMPLETED

\* C10: when the tasks of the images of a note are all completed, the text
\* of get_note_ocr_results is, for i = 1, 2, ..., the marker i with the
\* text of the i-th image of the note, whatever order the results were
\* stored in.
C10_AggregationOrder ==
    NoteCompleted =>
        get_note_ocr_results(NoteUrl)
            = [i \in 1..NoteImages |-> <<i, AllImageTexts[i]>>]

\* The tasks completed in the reverse of the order of their creation.
C10_Witness ==
    /\ NoteCompleted
    /\ Len(results) = NoteImages
    /\ \A i \in 1..NoteImages : results[i].task_id = NoteImages + 1 - i
    /\ get_note_ocr_results(NoteUrl)
           = [i \in 1..NoteImages |-> <<i, AllImageTexts[i]>>]

\* The text that the completed tasks of the list make: for every position
\* i of a completed task, the marker i with the text of the task's image.
RECURSIVE CompletedContent(_, _)
CompletedContent(task_ids, i) ==
    IF i > Len(task_ids) THEN << >>
    ELSE (IF /\ task_ids[i] \in DOMAIN tasks
             /\ tasks[task_ids[i]].status = TASK_STATUS_COMPLETED
          THEN << <<i, ImageOutput(tasks[task_ids[i]].url).text>> >>
          ELSE << >>) \o CompletedContent(task_ids, i + 1)

\* C11: the text of get_note_ocr_results holds the content of exactly the
\* tasks of the note that are completed; a task that is missing, pending,
\* processing or failed adds nothing to it.
C11_PartialAggregation ==
    \A u \in DOMAIN relations :
        get_note_ocr_results(u) = CompletedContent(relations[u].task_ids, 1)

\* C12: a process_note call that creates tasks appends their ids, in the
\* order of their creation, to the list of the note's relation and leaves
\* the relations of the other notes as they are.
C12_RelationAccumulates ==
    [][nextTaskId' > nextTaskId =>
        \E u \in DOMAIN relations' :
            /\ relations'[u].task_ids =
                  (IF u \in DOMAIN relations THEN relations[u].task_ids
                   ELSE << >>)
                  \o [i \in 1..(nextTaskId' - nextTaskId) |->
                         nextTaskId + i - 1]
            /\ \A v \in DOMAIN relations \ {u} :
                  v \in DOMAIN relations' /\ relations'[v] = relations[v]]_vars

\* process_tasks_in_parallel :429-438 has collected every future: the map
\* it returns has the value of the call for a task, False for a call that
\* raised.
ParallelResults ==
    [w \in DOMAIN fr |-> IF fr[w].ret = True THEN True ELSE False]

\* C13: when process_tasks_in_parallel returns, the entry of every task it
\* submitted is true exactly if the task is completed, and no such task is
\* pending or processing.
C13_ParallelResultMap ==
    (\A w \in DOMAIN pc : pc[w] = "done") =>
        \A w \in DOMAIN fr :
            LET t == fr[w].task_id
            IN /\ ParallelResults[w] = True
                    <=> tasks[t].status = TASK_STATUS_COMPLETED
               /\ tasks[t].status
                    \notin {TASK_STATUS_PENDING, TASK_STATUS_PROCESSING}

\* C14: when the download of a process_task call on a task with a URL and
\* no file path failed, the call made that one download attempt and no
\* engine call, returned false and left the task failed with the fixed
\* download-failed message.
C14_DownloadFailureTerminal ==
    \A w \in Threads :
        (/\ ProcessTaskReturned(w)
         /\ fr[w].url # None /\ fr[w].file_path = None
         /\ fr[w].downloads > 0)
        => /\ fr[w].downloads = 1
           /\ fr[w].calls = 0
           /\ fr[w].ret = False
           /\ tasks[fr[w].task_id].status = TASK_STATUS_FAILED
           /\ tasks[fr[w].task_id].error_message = MSG_DOWNLOAD_FAILED

C14_Witness ==
    \E w \in Threads :
        /\ ProcessTaskReturned(w)
        /\ fr[w].url = PlainUrl /\ fr[w].file_path = None
        /\ fr[w].downloads = 1 /\ fr[w].calls = 0
        /\ fr[w].ret = False
        /\ tasks[fr[w].task_id].status = TASK_STATUS_FAILED
        /\ tasks[fr[w].task_id].error_message = MSG_DOWNLOAD_FAILED

\* C15: a process_task or process_video_task call on a task with neither a
\* URL nor a file path made no download attempt and no engine call, returned
\* false and left the task failed.
C15_EmptyTaskFailsFast ==
    \A w \in Threads :
        (/\ pc[w] = "done"
         /\ fr[w].fn \in {"process_task", "retry", "process_video_task"}
         /\ fr[w].ret \in {True, False}
         /\ fr[w].status0 # None
         /\ fr[w].url = None /\ fr[w].file_path = None)
        => /\ fr[w].downloads = 0
           /\ fr[w].calls = 0
           /\ fr[w].ret = False
           /\ tasks[fr[w].task_id].status = TASK_STATUS_FAILED

\* C16: a process_task call in which the engine call raised has returned
\* false (it did not raise) and left the task failed with the text of the
\* exception as its error message.
C16_ExceptionBecomesFailed ==
    \A w \in Threads :
        (/\ pc[w] = "done"
         /\ fr[w].fn \in {"process_task", "retry"}
         /\ "raise" \in fr[w].seen)
        => /\ fr[w].ret = False
           /\ tasks[fr[w].task_id].status = TASK_STATUS_FAILED
           /\ tasks[fr[w].task_id].error_message = MSG_EXCEPTION

\* ------------------------------------------------------------ SpecStore
\* Direct calls of the store by one caller: create_result, update_task_status
\* and delete_task on a table of NumThreads tasks.

\* DELETE FROM results WHERE task_id = ?
RECURSIVE DeleteResults(_, _)
DeleteResults_KeepRows(R, id) == R

DeleteResults(R, id) ==
    IF R = << >> THEN << >>
    ELSE IF Head(R).task_id = id
         THEN DeleteResults(Tail(R), id)
         ELSE <<Head(R)>> \o DeleteResults(Tail(R), id)

\* DELETE FROM tasks WHERE id = ?

\* DatabaseManager.create_result(task_id, text_content, result_path)
CallCreateResult(w, id, out) ==
    /\ Idle(w)
    /\ id \in DOMAIN tasks
    /\ Len(results) <= MaxResults
    /\ pc' = [pc EXCEPT ![w] = "cr_insert"]
    /\ db' = [db EXCEPT ![w] = StartDb(w, "cr_insert")]
    /\ fr' = [fr EXCEPT ![w] = [NoFrame EXCEPT !.fn = "create_result",
                  !.task_id = id, !.out = out,
                  !.status0 = tasks[id].status,
                  !.rows0 = Len(SelectResults(results, id))]]
    /\ UNCHANGED <<tasks, nextTaskId, results, conn>>

\* DatabaseManager.update_task_status(task_id, status, error_message)
CallUpdateTaskStatus(w, id, status) ==
    /\ Idle(w)
    /\ pc' = [pc EXCEPT ![w] = "us_update"]
    /\ db' = [db EXCEPT ![w] = StartDb(w, "us_update")]
    /\ fr' = [fr EXCEPT ![w] = [NoFrame EXCEPT !.fn = "update_task_status",
                  !.task_id = id, !.kind = status]]
    /\ UNCHANGED <<tasks, nextTaskId, results, conn>>

\* db_manager.py:186-209 UPDATE tasks ...; return cursor.rowcount > 0
US_Update(w) ==
    /\ AtExec(w, "us_update")
    /\ IF OwnHandle(w)
       THEN /\ tasks' = UpdateTaskStatus(tasks, fr[w].task_id, fr[w].kind,
                                         NoError)
            /\ ExecDone(w, "done",
                        IF fr[w].task_id \in DOMAIN tasks THEN True ELSE False,
                        fr[w])
       ELSE /\ ExecFails(w)
            /\ UNCHANGED tasks
    /\ UNCHANGED <<nextTaskId, results, conn>>

\* TaskService.delete_task(task_id)
CallDeleteTask(w, id) ==
    /\ Idle(w)
    /\ pc' = [pc EXCEPT ![w] = "dt_delete"]
    /\ db' = [db EXCEPT ![w] = StartDb(w, "dt_delete")]
    /\ fr' = [fr EXCEPT ![w] = [NoFrame EXCEPT !.fn = "delete_task",
                  !.task_id = id,
                  !.status0 = IF id \in DOMAIN tasks THEN tasks[id].status
                              ELSE None,
                  !.rows0 = Len(SelectResults(results, id))]]
    /\ UNCHANGED <<tasks, nextTaskId, results, conn>>

\* db_manager.py:240-263 both DELETEs, commit, return True
DT_Delete(w) ==
    /\ AtExec(w, "dt_delete")
    /\ IF OwnHandle(w)
       THEN /\ results' = DeleteResults(results, fr[w].task_id)
            /\ tasks' = [t \in DOMAIN tasks \ {fr[w].task_id} |-> tasks[t]]
            /\ ExecDone(w, "done", True, fr[w])
       ELSE /\ ExecFails(w)
            /\ UNCHANGED <<tasks, results>>
    /\ UNCHANGED <<nextTaskId, conn>>

InitStore ==
    /\ tasks = [t \in 1..NumThreads |->
                   [url |-> None, file_path |-> LocalPath,
                    status |-> TASK_STATUS_PENDING, error_message |-> NoError,
                    task_type |-> TASK_TYPE_IMAGE]]
    /\ nextTaskId = NumThreads + 1
    /\ results = << >>
    /\ conn = NoConn
    /\ pc = [w \in Threads |-> IF w = 1 THEN "idle" ELSE "off"]
    /\ db = [w \in Threads |-> NoDb]
    /\ fr = [w \in Threads |-> NoFrame]
    /\ relations = << >>

NextStore ==
    /\ UNCHANGED relations
    /\ \E w \in Threads :
        \/ \E id \in 1..NumThreads, r \in SuccessStub :
               CallCreateResult(w, id, r.out)
        \/ CreateResultInsert(w)
        \/ CreateResultStatus(w)
        \/ \E id \in 1..NumThreads,
              status \in {TASK_STATUS_PENDING, TASK_STATUS_PROCESSING,
                          TASK_STATUS_COMPLETED, TASK_STATUS_FAILED} :
               CallUpdateTaskStatus(w, id, status)
        \/ US_Update(w)
        \/ \E id \in 1..NumThreads : CallDeleteTask(w, id)
        \/ DT_Delete(w)

SpecStore == InitStore /\ [][NextStore]_vars

\* C17: a create_result call on an existing task returns with the task
\* completed, whatever its status was, and none of its steps changes,
\* adds or removes another task.
C17_CreateResultCompletes ==
    [][\A w \in Threads :
         (/\ fr[w].fn = "create_result"
          /\ pc[w] \in {"cr_insert", "cr_status"}
          /\ pc'[w] # pc[w])
         => /\ DOMAIN tasks' = DOMAIN tasks
            /\ \A t \in DOMAIN tasks \ {fr[w].task_id} : tasks'[t] = tasks[t]
            /\ pc'[w] = "done"
               => /\ fr'[w].ret = "result_id"
                  /\ tasks'[fr[w].task_id].status = TASK_STATUS_COMPLETED]_vars

C17_Witness ==
    \E w \in Threads :
        /\ pc[w] = "done" /\ fr[w].fn = "create_result"
        /\ fr[w].status0 = TASK_STATUS_FAILED
        /\ tasks[fr[w].task_id].status = TASK_STATUS_COMPLETED
        /\ \E t \in DOMAIN tasks \ {fr[w].task_id} :
               tasks[t].status = TASK_STATUS_PROCESSING

\* C18: when delete_task(id) returns, get_task(id) finds no task and
\* get_task_result(id) no Result, and every other task and every Result of
\* another task is as it was.
C18_DeleteCascades ==
    [][\A w \in Threads :
         (pc[w] = "dt_delete" /\ pc'[w] = "done")
         => LET id == fr[w].task_id
            IN /\ fr'[w].ret = True
               /\ id \notin DOMAIN tasks'
               /\ SelectResults(results', id) = << >>
               /\ DOMAIN tasks' = DOMAIN tasks \ {id}
               /\ \A t \in DOMAIN tasks' : tasks'[t] = tasks[t]
               /\ \A t \in 1..NumThreads \ {id} :
                      SelectResults(results', t) = SelectResults(results, t)]_vars

C18_Witness ==
    \E w \in Threads :
        /\ pc[w] = "done" /\ fr[w].fn = "delete_task"
        /\ fr[w].ret = True
        /\ fr[w].rows0 > 1
        /\ fr[w].task_id \notin DOMAIN tasks
        /\ get_task_result(fr[w].task_id) = NoResult
        /\ \E t \in DOMAIN tasks : get_task_result(t) # NoResult

\* --------------------------------------------------------- SpecNormalize
\* Two callers (process_note :96, csv_service.py:229) normalize the URL a
\* row gives for a note, and _normalize_note_url is then applied to the key
\* each of them got.  fr[w].note is the note the URL was written for,
\* << >> when it is not the URL of a note.
NormCallers == {1, 2}

CallNormalize(w, note, url) ==
    /\ pc[w] = "idle"
    /\ pc' = [pc EXCEPT ![w] = "nz_first"]
    /\ fr' = [fr EXCEPT ![w] = [NoFrame EXCEPT !.fn = "_normalize_note_url",
                  !.url = url, !.note = note]]
    /\ UNCHANGED <<tasks, nextTaskId, results, conn, db, relations>>

\* :96 note_url = self._normalize_note_url(note_url)
NZ_First(w) ==
    /\ pc[w] = "nz_first"
    /\ pc' = [pc EXCEPT ![w] = "nz_again"]
    /\ fr' = [fr EXCEPT ![w].val = _normalize_note_url(fr[w].url)]
    /\ UNCHANGED <<tasks, nextTaskId, results, conn, db, relations>>

\* _normalize_note_url of the key that _normalize_note_url returned
NZ_Again(w) ==
    /\ pc[w] = "nz_again"
    /\ pc' = [pc EXCEPT ![w] = "done"]
    /\ fr' = [fr EXCEPT ![w].ret = _normalize_note_url(fr[w].val)]
    /\ UNCHANGED <<tasks, nextTaskId, results, conn, db, relations>>

InitNormalize ==
    /\ tasks = << >>
    /\ nextTaskId = 1
    /\ results = << >>
    /\ conn = NoConn
    /\ pc = [w \in Threads |-> IF w \in NormCallers THEN "idle" ELSE "off"]
    /\ db = [w \in Threads |-> NoDb]
    /\ fr = [w \in Threads |-> NoFrame]
    /\ relations = << >>

NextNormalize ==
    \E w \in NormCallers :
        \/ \E id \in { <<"n", "1">>, <<"a", "B", "2">> },
              scheme \in {"https", "http", ""},
              host \in {MainHost, "xiaohongshu.com"},
              query \in {"", "xsec_token=t"},
              trailer \in { << >>, << << >> >>, << <<"c", "-", "1">> >> } :
               CallNormalize(w, id, Decorate(id, scheme, host, query, trailer))
        \/ \E url \in {Url("https", "example.com", << <<"p">>, <<"1">> >>,
                            "ref=a"),
                        EmptyUrl} :
               CallNormalize(w, << >>, url)
        \/ NZ_First(w)
        \/ NZ_Again(w)

SpecNormalize == InitNormalize /\ [][NextNormalize]_vars

\* C19: normalizing a normalized URL returns it unchanged, and the URLs of
\* two callers that were written for the same note, differing in scheme,
\* host, query or trailing path, have the same normalized form.
C19_NormalizeCanonical ==
    /\ \A w \in NormCallers : pc[w] = "done" => fr[w].ret = fr[w].val
    /\ \A v, w \in NormCallers :
          (/\ pc[v] \in {"nz_again", "done"}
           /\ pc[w] \in {"nz_again", "done"}
           /\ fr[v].note # << >> /\ fr[v].note = fr[w].note)
          => fr[v].val = fr[w].val

C19_Witness ==
    \E v, w \in NormCallers :
        /\ pc[v] = "done" /\ pc[w] = "done"
        /\ fr[v].note = <<"a", "B", "2">> /\ fr[w].note = fr[v].note
        /\ fr[v].url.scheme = "" /\ fr[w].url.scheme = "http"
        /\ fr[v].url.host # fr[w].url.host
        /\ fr[v].url.query # fr[w].url.query
        /\ Len(fr[v].url.path) = 3 /\ Len(fr[w].url.path) = 2
        /\ fr[v].val = fr[w].val
        /\ fr[v].val # fr[v].url
        /\ fr[v].ret = fr[v].val

\* ------------------------------------------------------------ SpecSelect
\* OCRFactory.create_ocr_service.  An identifier is the sequence of its
\* characters; the argument is the identifier, or it is omitted (None).
OCR_ENGINE_LOCAL == <<"l", "o", "c", "a", "l">>
OCR_ENGINE_MISTRAL == <<"m", "i", "s", "t", "r", "a", "l">>
OCR_ENGINE_NLP == <<"n", "l", "p">>
DEFAULT_OCR_ENGINE == OCR_ENGINE_MISTRAL
PaddleOCRService == "PaddleOCRService"
MistralOCRService == "MistralOCRService"
MistralNLPService == "MistralNLPService"
Given(text) == [given |-> TRUE, text |-> text]

\* The letters of the identifiers in upper case, and an identifier written
\* with the letters at the positions S in upper case.
CaseVariant(text, S) ==
    LET UpperOf ==
          [c \in {"a", "c", "i", "l", "m", "n", "o", "p", "r", "s", "t"} |->
              CASE c = "a" -> "A" [] c = "c" -> "C" [] c = "i" -> "I"
                [] c = "l" -> "L" [] c = "m" -> "M" [] c = "n" -> "N"
                [] c = "o" -> "O" [] c = "p" -> "P" [] c = "r" -> "R"
                [] c = "s" -> "S" [] OTHER -> "T"]
    IN [i \in 1..Len(text) |-> IF i \in S THEN UpperOf[text[i]] ELSE text[i]]

\* str.lower() on the characters of the model
lower(text) ==
    LET LowerChar(c) ==
          CASE c = "A" -> "a" [] c = "C" -> "c" [] c = "G" -> "g"
            [] c = "I" -> "i" [] c = "L" -> "l" [] c = "M" -> "m"
            [] c = "N" -> "n" [] c = "O" -> "o" [] c = "P" -> "p"
            [] c = "R" -> "r" [] c = "S" -> "s" [] c = "T" -> "t"
            [] c = "X" -> "x" [] OTHER -> c
    IN [i \in 1..Len(text) |-> LowerChar(text[i])]

create_ocr_service_CaseSensitive(service_type) ==
    LET name == IF ~service_type.given THEN DEFAULT_OCR_ENGINE
                ELSE service_type.text
    IN IF name = OCR_ENGINE_LOCAL THEN PaddleOCRService
       ELSE IF name = OCR_ENGINE_MISTRAL THEN MistralOCRService
       ELSE IF name = OCR_ENGINE_NLP THEN MistralNLPService
       ELSE PaddleOCRService

\* ocr_factory.py:31-50
create_ocr_service(service_type) ==
    LET name == IF ~service_type.given THEN DEFAULT_OCR_ENGINE
                ELSE service_type.text
    IN IF lower(name) = OCR_ENGINE_LOCAL THEN PaddleOCRService
       ELSE IF lower(name) = OCR_ENGINE_MISTRAL THEN MistralOCRService
       ELSE IF lower(name) = OCR_ENGINE_NLP THEN MistralNLPService
       ELSE PaddleOCRService

\* fr[w].named is the known identifier the argument is a way of writing,
\* << >> when it is none.
CallCreateOcrService(w, named, service_type) ==
    /\ Idle(w)
    /\ pc' = [pc EXCEPT ![w] = "sel_create"]
    /\ fr' = [fr EXCEPT ![w] = [NoFrame EXCEPT !.fn = "create_ocr_service",
                  !.service_type = service_type, !.named = named]]
    /\ UNCHANGED <<tasks, nextTaskId, results, conn, db, relations>>

SEL_Create(w) ==
    /\ pc[w] = "sel_create"
    /\ pc' = [pc EXCEPT ![w] = "done"]
    /\ fr' = [fr EXCEPT ![w].ret = create_ocr_service(fr[w].service_type)]
    /\ UNCHANGED <<tasks, nextTaskId, results, conn, db, relations>>

NextSelect ==
    \E w \in Threads :
        \/ \E k \in {OCR_ENGINE_LOCAL, OCR_ENGINE_MISTRAL, OCR_ENGINE_NLP} :
             \E S \in SUBSET (1..Len(k)) :
               CallCreateOcrService(w, k, Given(CaseVariant(k, S)))
        \/ \E u \in { << >>, <<"g", "p", "t">>, <<"N", "L">>,
                       <<"l", "o", "c", "a", "l", "x">> } :
               CallCreateOcrService(w, << >>, Given(u))
        \/ CallCreateOcrService(w, << >>, [given |-> FALSE, text |-> << >>])
        \/ SEL_Create(w)

SpecSelect == Init /\ [][NextSelect]_vars

\* C20: create_ocr_service returns an engine for every argument: the
\* engine of the known identifier the argument writes in any letter case,
\* the engine of DEFAULT_OCR_ENGINE when the argument is omitted, and the
\* local engine for an unknown identifier.
C20_SelectorTotal ==
    LET OwnEngine(k) ==
          CASE k = OCR_ENGINE_LOCAL -> PaddleOCRService
            [] k = OCR_ENGINE_MISTRAL -> MistralOCRService
            [] k = OCR_ENGINE_NLP -> MistralNLPService
    IN
    \A w \in Threads :
        (pc[w] = "done" /\ fr[w].fn = "create_ocr_service")
        => /\ fr[w].ret \in {PaddleOCRService, MistralOCRService,
                              MistralNLPService}
           /\ fr[w].named # << >> => fr[w].ret = OwnEngine(fr[w].named)
           /\ ~fr[w].service_type.given
                  => fr[w].ret = OwnEngine(DEFAULT_OCR_ENGINE)
           /\ (fr[w].service_type.given /\ fr[w].named = << >>)
                  => fr[w].ret = PaddleOCRService

C20_Witness ==
    \E w \in Threads :
        /\ pc[w] = "done" /\ fr[w].fn = "create_ocr_service"
        /\ fr[w].service_type = Given(<<"M", "i", "S", "t", "r", "a", "L">>)
        /\ fr[w].named = OCR_ENGINE_MISTRAL
        /\ fr[w].ret = MistralOCRService

\* --------------------------------------------------------------- SpecCsv
\* CSVService.process_csv_file on one file.  A file is readable or not and
\* has its columns and its rows; a row has its note_url ("" is EmptyUrl) and
\* what process_note does with it: "ok", "note_error" (an exception inside
\* process_note, which returns False) or "raise" (an exception in the row's
\* own statements).
validate_csv_structure_NoFieldCheck(df, required_fields) ==
    IF df.rows = << >>
    THEN [is_valid |-> FALSE, kind |-> "empty file", fields |-> {}]
    ELSE [is_valid |-> TRUE, kind |-> "", fields |-> {}]

\* csv_utils.py:103-110
validate_csv_structure(df, required_fields) ==
    IF df.rows = << >>
    THEN [is_valid |-> FALSE, kind |-> "empty file", fields |-> {}]
    ELSE LET missing_fields == required_fields \ df.columns
         IN IF missing_fields # {}
            THEN [is_valid |-> FALSE, kind |-> "missing fields",
                  fields |-> missing_fields]
            ELSE [is_valid |-> TRUE, kind |-> "", fields |-> {}]

\* What process_csv_file returns: (success, message, output_file), the
\* message by its kind, the fields it names and the counts it reports.
CsvReturn(success, kind, fields, counts, output_file) ==
    [success |-> success, kind |-> kind, fields |-> fields,
     counts |-> counts, output_file |-> output_file]

CallProcessCsvFile(w, file) ==
    /\ pc[w] = "idle"
    /\ pc' = [pc EXCEPT ![w] = "cv_read"]
    /\ fr' = [fr EXCEPT ![w] = [NoFrame EXCEPT !.fn = "process_csv_file",
                  !.csv.df = file]]
    /\ UNCHANGED <<tasks, nextTaskId, results, conn, db, relations>>

\* csv_service.py:70-79 read_csv and validate_csv_structure
CV_Validate(w) ==
    /\ pc[w] = "cv_read"
    /\ LET df == fr[w].csv.df
           v == validate_csv_structure(df, {"note_url"})
       IN IF ~df.readable
          THEN /\ pc' = [pc EXCEPT ![w] = "done"]
               /\ fr' = [fr EXCEPT ![w].ret =
                            CsvReturn(False, "cannot read", {}, << >>, None)]
          ELSE IF ~v.is_valid
          THEN /\ pc' = [pc EXCEPT ![w] = "done"]
               /\ fr' = [fr EXCEPT ![w].ret =
                            CsvReturn(False, v.kind, v.fields, << >>, None)]
          ELSE /\ pc' = [pc EXCEPT ![w] = "cv_row"]
               /\ fr' = fr
    /\ UNCHANGED <<tasks, nextTaskId, results, conn, db, relations>>

RowCounts_DropRaised(c, row) ==
    IF row.note_url # EmptyUrl /\ row.outcome = "ok"
    THEN [c EXCEPT !.index = @ + 1, !.processed_rows = @ + 1]
    ELSE IF row.note_url # EmptyUrl /\ row.outcome = "raise"
    THEN [c EXCEPT !.index = @ + 1]
    ELSE [c EXCEPT !.index = @ + 1, !.failed_rows = @ + 1]

\* :97-129 the counters after a row
RowCounts(c, row) ==
    IF row.note_url # EmptyUrl /\ row.outcome = "ok"
    THEN [c EXCEPT !.index = @ + 1, !.processed_rows = @ + 1]
    ELSE [c EXCEPT !.index = @ + 1, !.failed_rows = @ + 1]

\* :94-129 one row of the loop: process_note makes the tasks of the row's
\* images and its relation
CV_Row(w) ==
    /\ pc[w] = "cv_row"
    /\ fr[w].csv.index < Len(fr[w].csv.df.rows)
    /\ LET row == fr[w].csv.df.rows[fr[w].csv.index + 1]
           made == CreateImageTasks(tasks, nextTaskId,
                                    SubSeq(AllImageUrls, 1, NoteImages))
           c == RowCounts(fr[w].csv, row)
       IN IF row.note_url # EmptyUrl /\ row.outcome = "ok"
          THEN /\ tasks' = made.tasks
               /\ nextTaskId' = nextTaskId + Len(made.ids)
               /\ relations' = IF made.ids # << >>
                               THEN _save_note_task_relation(relations,
                                      _normalize_note_url(row.note_url),
                                      made.ids, << >>)
                               ELSE relations
               /\ fr' = [fr EXCEPT ![w].csv =
                            [c EXCEPT !.all_task_ids = @ \o made.ids]]
          ELSE /\ fr' = [fr EXCEPT ![w].csv = c]
               /\ UNCHANGED <<tasks, nextTaskId, relations>>
    /\ UNCHANGED <<results, conn, pc, db>>

\* :132-136 _process_tasks_in_parallel and _update_results, with downloads
\* and engines that succeed: every task of the file gets its Result
CV_Pool(w) ==
    /\ pc[w] = "cv_row"
    /\ fr[w].csv.index = Len(fr[w].csv.df.rows)
    /\ LET ids == fr[w].csv.all_task_ids
       IN /\ tasks' = [t \in DOMAIN tasks |->
                         [tasks[t] EXCEPT !.status = TASK_STATUS_COMPLETED,
                                          !.file_path = DownloadedPath]]
          /\ results' = results \o
                 [i \in 1..Len(ids) |->
                    [task_id |-> ids[i],
                     text_content |-> ImageOutput(tasks[ids[i]].url).text,
                     result_path |-> ImageOutput(tasks[ids[i]].url).path]]
    /\ pc' = [pc EXCEPT ![w] = "cv_write"]
    /\ UNCHANGED <<nextTaskId, conn, db, fr, relations>>

\* :139-152 write_csv and the summary
CV_Write(w) ==
    /\ pc[w] = "cv_write"
    /\ \E written \in BOOLEAN :
         LET c == fr[w].csv
         IN fr' = [fr EXCEPT
              ![w].csv.output = written,
              ![w].ret =
                 IF written
                 THEN CsvReturn(True, "summary", {},
                                <<c.processed_rows, Len(c.df.rows),
                                  c.failed_rows>>, "/res/processed.csv")
                 ELSE CsvReturn(False, "cannot write", {}, << >>, None)]
    /\ pc' = [pc EXCEPT ![w] = "done"]
    /\ UNCHANGED <<tasks, nextTaskId, results, conn, db, relations>>

NextCsv ==
    \E w \in Threads :
        \/ \E readable \in BOOLEAN,
              columns \in {{"note_url", "image_list"}, {"image_list"}},
              n \in 0..MaxRows :
             \E rows \in [1..n ->
                           {[note_url |-> NoteUrl, outcome |-> "ok"],
                            [note_url |-> Decorate(<<"n", "1">>, "https",
                                            MainHost, "xsec_token=t", << >>),
                             outcome |-> "ok"],
                            [note_url |-> EmptyUrl, outcome |-> "ok"],
                            [note_url |-> NoteUrl, outcome |-> "note_error"],
                            [note_url |-> NoteUrl, outcome |-> "raise"]}] :
               CallProcessCsvFile(w, [readable |-> readable,
                                      columns |-> columns, rows |-> rows])
        \/ CV_Validate(w)
        \/ CV_Row(w)
        \/ CV_Pool(w)
        \/ CV_Write(w)

SpecCsv == Init /\ [][NextCsv]_vars

\* C21: when process_csv_file returns on a readable file that has rows and
\* lacks the note_url column, it returns (False, a message that names
\* note_url as missing, None), has written no output file and has created
\* no task and no relation; on a file without rows the message says that
\* the file is empty.
C21_MissingColumnFailsFast ==
    \A w \in Threads :
        (/\ pc[w] = "done" /\ fr[w].fn = "process_csv_file"
         /\ fr[w].csv.df.readable
         /\ "note_url" \notin fr[w].csv.df.columns)
        => /\ fr[w].ret.success = False
           /\ fr[w].ret.output_file = None
           /\ IF fr[w].csv.df.rows # << >>
              THEN /\ fr[w].ret.kind = "missing fields"
                   /\ fr[w].ret.fields = {"note_url"}
              ELSE fr[w].ret.kind = "empty file"
           /\ ~fr[w].csv.output
           /\ tasks = << >> /\ relations = << >> /\ results = << >>

C21_Witness ==
    \E w \in Threads :
        /\ pc[w] = "done" /\ fr[w].fn = "process_csv_file"
        /\ fr[w].csv.df.readable
        /\ "note_url" \notin fr[w].csv.df.columns
        /\ Len(fr[w].csv.df.rows) = 2
        /\ fr[w].ret = CsvReturn(False, "missing fields", {"note_url"},
                                 << >>, None)
        /\ tasks = << >> /\ relations = << >>

\* C21 as stated: on every readable file that lacks the note_url column
\* the message names the missing column.
C21_AlwaysNamesColumn ==
    \A w \in Threads :
        (/\ pc[w] = "done" /\ fr[w].fn = "process_csv_file"
         /\ fr[w].csv.df.readable
         /\ "note_url" \notin fr[w].csv.df.columns)
        => /\ fr[w].ret.success = False
           /\ fr[w].ret.output_file = None
           /\ fr[w].ret.kind = "missing fields"
           /\ fr[w].ret.fields = {"note_url"}
           /\ ~fr[w].csv.output
           /\ tasks = << >> /\ relations = << >>

\* C28: when process_csv_file returns its summary, every row of the file
\* has been visited, a row counts as processed or as failed, and processed
\* rows + failed rows = total rows.
C28_EveryRowCounted ==
    \A w \in Threads :
        (/\ pc[w] = "done" /\ fr[w].fn = "process_csv_file"
         /\ fr[w].ret.kind = "summary")
        => LET c == fr[w].csv
           IN /\ c.index = Len(c.df.rows)
              /\ fr[w].ret.counts[2] = Len(c.df.rows)
              /\ fr[w].ret.counts[1] + fr[w].ret.counts[3] = Len(c.df.rows)
              /\ fr[w].ret.counts[1] =
                    Cardinality({i \in DOMAIN c.df.rows :
                                   /\ c.df.rows[i].note_url # EmptyUrl
                                   /\ c.df.rows[i].outcome = "ok"})
              /\ Len(c.all_task_ids) = fr[w].ret.counts[1] * NoteImages

C28_Witness ==
    \E w \in Threads :
        /\ pc[w] = "done" /\ fr[w].fn = "process_csv_file"
        /\ fr[w].ret.kind = "summary"
        /\ Len(fr[w].csv.df.rows) = 3
        /\ fr[w].csv.df.rows[1].outcome = "raise"
        /\ fr[w].csv.df.rows[2].outcome = "note_error"
        /\ fr[w].csv.df.rows[3] = [note_url |-> NoteUrl, outcome |-> "ok"]
        /\ fr[w].ret.counts = <<1, 3, 2>>
        /\ Len(fr[w].csv.all_task_ids) = NoteImages

CallProcessTaskFacing(w, id) ==
    /\ Idle(w)
    /\ Len(results) < MaxResults
    /\ pc' = [pc EXCEPT ![w] = "pt_get"]
    /\ db' = [db EXCEPT ![w] = StartDb(w, "pt_get")]
    /\ fr' = [fr EXCEPT ![w] = [NoFrame EXCEPT !.fn = "process_task",
                  !.task_id = id,
                  !.engine = SuccessStub \cup
                     {[kind |-> "error", out |-> NoOutput, error |-> err] :
                        err \in EngineErrors \cup
                                {{"Read timed out"}, {"Connection reset by peer"}}}]]
    /\ UNCHANGED <<tasks, nextTaskId, results, conn>>

NextClassify ==
    /\ UNCHANGED relations
    /\ \E w \in Threads :
        \/ CallCreateTask(w, None, LocalPath)
        \/ CT_Insert(w)
        \/ \E id \in TaskIds : CallProcessTaskFacing(w, id)
        \/ PT_GetTask(w) \/ PT_SetProcessing(w) \/ PT_Download(w)
        \/ PT_Engine(w) \/ PT_RetryExhausted(w) \/ PT_TerminalFailure(w)
        \/ CreateResultInsert(w) \/ CreateResultStatus(w) \/ SetCompleted(w)

SpecClassify == Init /\ [][NextClassify]_vars

\* C22: a process_task call that returned false with an error of the
\* engine that indicates rate limiting, a connection reset, a TLS failure
\* or a timeout made 1 + max_retries engine calls (the failure was retried
\* up to the ceiling); one that returned false with any other reported
\* error retried every call but the last.
C22_TransientClassified ==
    \A w \in Threads :
        (ProcessTaskReturned(w) /\ fr[w].ret = False
         /\ fr[w].error_msg # NoError)
        => IF fr[w].error_msg \cap {RateLimitPhrase, "Connection reset by peer",
                                     SSLErrorPhrase, "Read timed out"} # {}
           THEN fr[w].calls = 1 + max_retries
           ELSE fr[w].calls = fr[w].retry_count + 1

\* ------------------------------------------------- running to an end
\* process_task (fn = "process_task") or process_video_task is called on
\* task id; the engine answers each call with one output, an error text or
\* an exception.
CallProcess(w, id, fn) ==
    LET first == IF fn = "process_video_task" THEN "pv_get" ELSE "pt_get"
    IN /\ Idle(w)
       /\ Len(results) < MaxResults
       /\ pc' = [pc EXCEPT ![w] = first]
       /\ db' = [db EXCEPT ![w] = StartDb(w, first)]
       /\ fr' = [fr EXCEPT ![w] = [NoFrame EXCEPT !.fn = fn, !.task_id = id,
                     !.engine = {r \in EngineReplies :
                                   r.kind = "success" => r \in SuccessStub}]]
       /\ UNCHANGED <<tasks, nextTaskId, results, conn>>

\* One task of either kind has been created, with any URL and file path.
InitRun ==
    /\ \E url \in Urls \cup {None}, path \in {None, LocalPath},
          kind \in {TASK_TYPE_IMAGE, TASK_TYPE_VIDEO} :
          tasks = InsertTask(<< >>, 1, url, path, kind)
    /\ nextTaskId = 2
    /\ results = << >>
    /\ conn = NoConn
    /\ pc = [w \in Threads |-> IF w = 1 THEN "idle" ELSE "off"]
    /\ db = [w \in Threads |-> NoDb]
    /\ fr = [w \in Threads |-> NoFrame]
    /\ relations = << >>

\* The task is processed, and processed again, by either method.
NextRun ==
    /\ UNCHANGED relations
    /\ \E w \in Threads :
        \/ \E id \in DOMAIN tasks,
              fn \in {"process_task", "process_video_task"} :
               CallProcess(w, id, fn)
        \/ ProcessTaskStep(w)
        \/ ProcessVideoTaskStep(w)

SpecRun == InitRun /\ [][NextRun]_vars

\* The interpreter keeps running the thread that is inside a call.
SpecRunLive ==
    SpecRun /\   \A w \in Threads :
                    WF_vars(/\ UNCHANGED relations
                            /\ ProcessTaskStep(w) \/ ProcessVideoTaskStep(w))

\* process_task or process_video_task has returned to w, for a task that
\* exists.
ProcessReturned(w) ==
    /\ pc[w] = "done"
    /\ fr[w].fn \in {"process_task", "process_video_task"}
    /\ fr[w].task_id \in DOMAIN tasks

\* C23: every call of process_task or process_video_task returns; when it
\* has returned for an existing task, the task is completed or failed and
\* the value returned is true exactly when it is completed.
C23_RunsToTerminal ==
    /\ [](\A w \in Threads :
            ProcessReturned(w)
            => /\ fr[w].ret \in {True, False}
               /\ tasks[fr[w].task_id].status
                      \in {TASK_STATUS_COMPLETED, TASK_STATUS_FAILED}
               /\ (fr[w].ret = True
                   <=> tasks[fr[w].task_id].status = TASK_STATUS_COMPLETED))
    /\ \A w \in Threads :
          (/\ fr[w].fn \in {"process_task", "process_video_task"}
           /\ pc[w] \notin {"idle", "done", "off"}) ~> pc[w] = "done"

\* process_video_task returned false after the engine raised at every one
\* of its 1 + max_retries calls.
C23_Witness ==
    \E w \in Threads :
        /\ ProcessReturned(w)
        /\ fr[w].fn = "process_video_task"
        /\ fr[w].calls = 1 + max_retries
        /\ fr[w].ret = False
        /\ tasks[fr[w].task_id].status = TASK_STATUS_FAILED

\* C24: process_video_task on a task with a local file treats the engine's
\* outcomes as process_task does: when it ends on an error the engine
\* reported, a transient one has used the whole retry budget and a
\* terminal one was the only kind of error reported.
C24_SameStateMachine ==
    \A w \in Threads :
        /\ ProcessReturned(w)
        /\ fr[w].fn = "process_video_task"
        /\ tasks[fr[w].task_id].file_path = LocalPath
        /\ tasks[fr[w].task_id].status = TASK_STATUS_FAILED
        /\ tasks[fr[w].task_id].error_message = fr[w].error_msg
        /\ fr[w].error_msg # NoError
        => IF IsRetryableError(fr[w].error_msg)
           THEN fr[w].calls = 1 + max_retries
           ELSE "transient" \notin fr[w].seen \/ fr[w].calls > 1

\* C25: a step gives a task the status pending only when it creates the
\* task or is the reset of the retry action on a failed task, and that
\* reset is followed by process_task on the same task.
C25_PendingOnlyByCreateOrRetry ==
    [][\A id \in DOMAIN tasks' :
          (/\ tasks'[id].status = TASK_STATUS_PENDING
           /\ id \in DOMAIN tasks => tasks[id].status # TASK_STATUS_PENDING)
          => \/ id \notin DOMAIN tasks
             \/ \E w \in Threads :
                  /\ pc[w] = "rt_reset"
                  /\ fr[w].fn = "retry"
                  /\ fr[w].task_id = id
                  /\ tasks[id].status = TASK_STATUS_FAILED
                  /\ pc'[w] = "pt_get"]_vars

\* The retry action has reset a failed task and process_task has made it
\* completed.
C25_Witness ==
    \E w \in Threads :
        /\ ProcessTaskReturned(w)
        /\ fr[w].fn = "retry"
        /\ fr[w].ret = True
        /\ tasks[fr[w].task_id].status = TASK_STATUS_COMPLETED

\* C26: a task has an error message exactly when its status is failed.
C26_MessageIffFailed ==
    \A id \in DOMAIN tasks :
        tasks[id].error_message # NoError
        <=> tasks[id].status = TASK_STATUS_FAILED

\* The retry action has reset a failed task, which had a message, to
\* pending, and process_task is about to run on it.
C26_Witness ==
    \E w \in Threads :
        /\ fr[w].fn = "retry"
        /\ pc[w] = "pt_get"
        /\ fr[w].task_id \in DOMAIN tasks
        /\ tasks[fr[w].task_id].status = TASK_STATUS_PENDING
        /\ tasks[fr[w].task_id].error_message = NoError

\* C27: a relation row to which at least one task id is attached has the
\* status processing; a row is pending only while it has no task.
C27_RelationProcessing ==
    \A u \in DOMAIN relations :
        IF relations[u].task_ids # << >> \/ relations[u].video_task_ids # << >>
        THEN relations[u].status = TASK_STATUS_PROCESSING
        ELSE relations[u].status = TASK_STATUS_PENDING

\* -------------------------------------------------------- rate limiting
\* The TaskService instance's clock and watermark travel in the frame of
\* the thread that calls it, in tenths of a second: now is time.time(),
\* last_task_time the watermark, dispatched the time at which the latest
\* call went on to download and engine work, gap its distance from the
\* dispatch before it (-1: there is none).
\* task_service.py:43-53 _wait_for_rate_limit: sleep until the interval and
\* the jitter have passed, then set the watermark.
_wait_for_rate_limit(r, jitter) ==
    LET elapsed == r.now - r.last_task_time
        after == IF elapsed < min_task_interval
                 THEN r.now + (min_task_interval - elapsed) + jitter
                 ELSE r.now
    IN [r EXCEPT !.now = after, !.last_task_time = after]

\* The call goes on to download and engine work at time r.now.
Dispatched(r) ==
    [r EXCEPT !.dispatched = r.now,
              !.gap = IF r.dispatched < 0 THEN -1 ELSE r.now - r.dispatched]

\* A call on the instance, whose clock and watermark it finds as the call
\* before left them.
CallProcessTimed(w, id, fn) ==
    LET first == IF fn = "process_video_task" THEN "pv_get" ELSE "pt_get"
    IN /\ Idle(w)
       /\ Len(results) < MaxResults
       /\ fr[w].rate.now <= MaxClock
       /\ pc' = [pc EXCEPT ![w] = first]
       /\ db' = [db EXCEPT ![w] = StartDb(w, first)]
       /\ fr' = [fr EXCEPT ![w] = [NoFrame EXCEPT !.fn = fn, !.task_id = id,
                     !.rate = fr[w].rate,
                     !.engine = {r \in EngineReplies :
                                   \/ r \in SuccessStub
                                   \/ /\ r.kind = "error"
                                      /\ ~IsRetryableError(r.error)}]]
       /\ UNCHANGED <<tasks, nextTaskId, results, conn>>

\* Time passes between two calls and while the engine works.
Tick(w) ==
    /\ pc[w] \in {"idle", "done", "pt_engine", "pv_engine"}
    /\ fr[w].rate.now < MaxClock
    /\ fr' = [fr EXCEPT ![w].rate.now = @ + 1]
    /\ UNCHANGED <<tasks, nextTaskId, results, conn, pc, db>>

\* process_task :93-96 update_task_status(PROCESSING), then
\* self._wait_for_rate_limit()
PT_Dispatch(w) ==
    /\ AtExec(w, "pt_processing")
    /\ OwnHandle(w)
    /\ tasks' = UpdateTaskStatus(tasks, fr[w].task_id,
                                 TASK_STATUS_PROCESSING, NoError)
    /\ \E jitter \in {1, 2, 3} :       \* random.uniform(0.1, 0.3)
         ExecDone(w, "pt_loop", None,
                  [fr[w] EXCEPT !.rate =
                       Dispatched(_wait_for_rate_limit(@, jitter))])
    /\ UNCHANGED <<nextTaskId, results, conn>>

\* process_video_task :277-282 update_task_status(PROCESSING), then the
\* task's url and file_path are looked at
PV_Dispatch(w) ==
    /\ AtExec(w, "pv_processing")
    /\ OwnHandle(w)
    /\ tasks' = UpdateTaskStatus(tasks, fr[w].task_id,
                                 TASK_STATUS_PROCESSING, NoError)
    /\ ExecDone(w, "pv_branch", None,
                [fr[w] EXCEPT !.rate = Dispatched(@)])
    /\ UNCHANGED <<nextTaskId, results, conn>>

\* One task with a local file; the instance was made long after the epoch,
\* which is the watermark it starts with.
InitRate ==
    /\ \E kind \in {TASK_TYPE_IMAGE, TASK_TYPE_VIDEO} :
          tasks = InsertTask(<< >>, 1, None, LocalPath, kind)
    /\ nextTaskId = 2
    /\ results = << >>
    /\ conn = NoConn
    /\ pc = [w \in Threads |-> IF w = 1 THEN "idle" ELSE "off"]
    /\ db = [w \in Threads |-> NoDb]
    /\ fr = [w \in Threads |->
               [NoFrame EXCEPT !.rate.now = min_task_interval]]
    /\ relations = << >>

NextRate ==
    /\ UNCHANGED relations
    /\ \E w \in Threads :
        \/ \E id \in DOMAIN tasks,
              fn \in {"process_task", "process_video_task"} :
               CallProcessTimed(w, id, fn)
        \/ Tick(w)
        \/ PT_GetTask(w) \/ PT_Dispatch(w) \/ PT_Download(w) \/ PT_Engine(w)
        \/ PT_TerminalFailure(w)
        \/ CreateResultInsert(w) \/ CreateResultStatus(w) \/ SetCompleted(w)
        \/ PV_GetTask(w) \/ PV_Dispatch(w) \/ PV_Branch(w) \/ PV_Engine(w)
        \/ PV_Failed(w)

SpecRate == InitRate /\ [][NextRate]_vars

\* C29: the watermark never decreases, and a call goes on to download and
\* engine work at least the minimum task interval after the call before it
\* did.
C29_MinimumInterval ==
    /\ [](\A w \in Threads :
            fr[w].rate.gap >= 0 => fr[w].rate.gap >= min_task_interval)
    /\ [][\A w \in Threads :
            fr'[w].rate.last_task_time >= fr[w].rate.last_task_time]_vars

\* ------------------------------------------- MistralOCRService requests
\* process_task :121 calls process_image, which (mistral_ocr.py:240)
\* calls _make_api_request: retry_count = 0
MI_Call(w) ==
    /\ pc[w] = "pt_engine"
    /\ pc' = [pc EXCEPT ![w] = "mr_loop"]
    /\ fr' = [fr EXCEPT ![w].api = NoFrame.api]
    /\ UNCHANGED <<tasks, nextTaskId, results, conn, db>>

\* mistral_ocr.py:70-100 one pass of `while retry_count <= self.max_retries`:
\* a 429 counts a retry and continues, another response is returned, an
\* exception counts a retry and is raised again past the ceiling; when the
\* loop ends the function returns nothing.
MR_Request(w) ==
    /\ pc[w] = "mr_loop"
    /\ IF fr[w].api.retry_count <= MistralOCRService_max_retries
       THEN \E o \in {"200", "429", "500", "ConnectionError", "Timeout"} :
              LET n == fr[w].api.retry_count + 1
                  a == [fr[w].api EXCEPT !.requests = @ + 1,
                                         !.only429 = @ /\ o = "429"]
              IN CASE o = "429" ->
                        /\ fr' = [fr EXCEPT ![w].api =
                                     [a EXCEPT !.retry_count = n]]
                        /\ UNCHANGED pc
                   [] o \in {"200", "500"} ->
                        /\ fr' = [fr EXCEPT ![w].api =
                                     [a EXCEPT !.response = o]]
                        /\ pc' = [pc EXCEPT ![w] = "mi_done"]
                   [] OTHER ->
                        IF n > MistralOCRService_max_retries
                        THEN /\ fr' = [fr EXCEPT ![w].api =
                                         [a EXCEPT !.retry_count = n,
                                                   !.response = Raised],
                                       \* str(e), by its phrases
                                       ![w].val =
                                           IF o = "Timeout"
                                           THEN {"Read timed out"}
                                           ELSE {MaxRetriesPhrase}]
                             /\ pc' = [pc EXCEPT ![w] = "mi_done"]
                        ELSE /\ fr' = [fr EXCEPT ![w].api =
                                         [a EXCEPT !.retry_count = n]]
                             /\ UNCHANGED pc
       ELSE /\ fr' = [fr EXCEPT ![w].api.response = None]
            /\ pc' = [pc EXCEPT ![w] = "mi_done"]
    /\ UNCHANGED <<tasks, nextTaskId, results, conn, db>>

\* mistral_ocr.py:239-283 what process_image returns: the text of the pages
\* for status 200, the response text for another status, the text of the
\* exception for an exception; response.status_code of no response raises
\* AttributeError, which the same except clause turns into an error text.
process_image(f) ==
    CASE f.api.response = "200" -> CHOOSE r \in SuccessStub : TRUE
      [] f.api.response = "500" ->
            [kind |-> "error", out |-> NoOutput, error |-> {"response.text"}]
      [] f.api.response = Raised ->
            [kind |-> "error", out |-> NoOutput, error |-> f.val]
      [] OTHER ->
            [kind |-> "error", out |-> NoOutput,
             error |-> {"'NoneType' object has no attribute 'status_code'"}]

\* process_task :121-156 goes on with what process_image returned
MI_Return(w) ==
    /\ pc[w] = "mi_done"
    /\ EngineReply(w, process_image(fr[w]))
    /\ UNCHANGED <<tasks, nextTaskId, results, conn>>

\* process_task with the Mistral engine, on a task with a local file.
NextMistral ==
    /\ UNCHANGED relations
    /\ \E w \in Threads :
        \/ CallCreateTask(w, None, LocalPath) \/ CT_Insert(w)
        \/ \E id \in TaskIds : CallProcessTaskFacing(w, id)
        \/ PT_GetTask(w) \/ PT_SetProcessing(w) \/ PT_Download(w)
        \/ MI_Call(w) \/ MR_Request(w) \/ MI_Return(w)
        \/ PT_RetryExhausted(w) \/ PT_TerminalFailure(w)
        \/ CreateResultInsert(w) \/ CreateResultStatus(w) \/ SetCompleted(w)

SpecMistral == Init /\ [][NextMistral]_vars

\* C30: when _make_api_request has ended it has issued at most
\* 1 + max_retries requests and has returned a response or raised; after
\* nothing but rate-limit responses process_image reports a rate-limit
\* failure.
C30_RequestEndsWithResponse ==
    \A w \in Threads :
        pc[w] = "mi_done"
        => /\ fr[w].api.requests <= 1 + MistralOCRService_max_retries
           /\ fr[w].api.response \in {"200", "500", Raised}
           /\ fr[w].api.only429
              => RateLimitPhrase \in process_image(fr[w]).error
====
